---- MODULE Spec2Model ----
(***************************************************************************)
(* Model of the data-normalisation and metrics-aggregation code of the     *)
(* Google Ads Analyzer page (src/pages/3_..._Google_Ads_Analyzer.py), of   *)
(* its files under data/, of connect_google_sheets of the GA4 + Ads page   *)
(* and of the Store Manager's stores_data.json.                            *)
(*                                                                         *)
(* Text is a sequence of one-character strings.  A float is an exact       *)
(* rational n/d (d > 0, lowest terms); d = 0 encodes the IEEE specials:    *)
(* 0/0 is NaN, 1/0 is +inf, -1/0 is -inf.  A cell value is a record        *)
(* [k, s, n, d]: k = "str" carries the text s, k = "num" the number n/d.   *)
(***************************************************************************)
EXTENDS Integers, Sequences, FiniteSets, TLC

VARIABLES
    pc,               \* position in the run
    cell,             \* the value handed to smart_to_float
    num,              \* what smart_to_float returned for it
    values,           \* worksheet.get_all_values(): rows of text cells
    header_row_idx,   \* connect_google_sheets: index (0-based) of the header row
    headers,          \* connect_google_sheets: canonical column names
    records,          \* connect_google_sheets: the records returned
    df,               \* the DataFrame of the page
    summary,          \* analyze_ads_performance(df)
    campaign_stats,   \* safe_group_sum(df, 'campaign')
    top_campaigns,    \* campaign_stats.nlargest(10, 'cost')
    cursor_file,      \* data/cursor_<store>.txt: whether it exists, the count it holds
    ads_data_file,    \* data/google_ads_<store>.json: whether it exists, its records
    ads_currency,     \* st.session_state["ads_currency"]: the display currency
    ads_cost_thousands_vnd,  \* st.session_state["ads_cost_thousands_vnd"]: the checkbox
    store_name,       \* the store the page works on
    data_files,       \* the other .json files of data/, oldest creation time first
    latest_file,      \* auto_import_json_files: the name of the file it picked
    unwritable,       \* the files on which open(..., 'w') raises
    stores_file,      \* stores_data.json
    sessions          \* Store Manager: each running call, its position and locals

\* the variables of the data directory, and those of the Store Manager
fileVars == <<store_name, data_files, latest_file, unwritable>>

storeVars == <<stores_file, sessions>>

vars == <<pc, cell, num, values, header_row_idx, headers, records, df, summary,
          campaign_stats, top_campaigns, cursor_file, ads_data_file,
          ads_currency, ads_cost_thousands_vnd, fileVars, storeVars>>

-----------------------------------------------------------------------------
(* Bounds of the model *)

\* longest enumerated cell text handed to smart_to_float
MaxCellLen == 4
\* most filler rows put in front of a sheet
MaxPad == 10
\* most rows that follow the filler rows of a sheet
MaxTail == 3
\* most records of an enumerated table
MaxRecords == 3
\* most cells in an enumerated row of labels
MaxHeaderLen == 3
\* most data rows under an enumerated row of labels
MaxRows == 3

-----------------------------------------------------------------------------
(* Characters and text *)

\* the modelled characters in ascending code-point order
Ascii ==
    <<" ", "$", "%", ",", "-", ".",
      "0", "1", "2", "3", "4", "5", "6", "7", "8", "9",
      "A", "B", "C", "D", "E", "F", "G", "H", "I", "J", "K", "L", "M",
      "N", "O", "P", "Q", "R", "S", "T", "U", "V", "W", "X", "Y", "Z", "_",
      "a", "b", "c", "d", "e", "f", "g", "h", "i", "j", "k", "l", "m",
      "n", "o", "p", "q", "r", "s", "t", "u", "v", "w", "x", "y", "z", "à">>

Code(c) == CHOOSE i \in 1..Len(Ascii) : Ascii[i] = c

Digits == {"0", "1", "2", "3", "4", "5", "6", "7", "8", "9"}

DigitVal(c) == Code(c) - Code("0")

UpperCase == {Ascii[i] : i \in Code("A")..Code("Z")}

\* str.lower() on one character
LowerChar(c) == IF c \in UpperCase THEN Ascii[Code(c) + (Code("a") - Code("A"))] ELSE c

\* str.lower()
Lower(s) == [i \in 1..Len(s) |-> LowerChar(s[i])]

RECURSIVE LStrip(_)
LStrip(s) == IF s # <<>> /\ s[1] = " " THEN LStrip(Tail(s)) ELSE s

RECURSIVE RStrip(_)
RStrip(s) == IF s # <<>> /\ s[Len(s)] = " " THEN RStrip(SubSeq(s, 1, Len(s) - 1)) ELSE s

\* str.strip()
Strip(s) == RStrip(LStrip(s))

\* c in s
Contains(s, c) == \E i \in 1..Len(s) : s[i] = c

\* s.rfind(c): 0-based index of the last occurrence, -1 when there is none
RFind(s, c) ==
    IF Contains(s, c)
    THEN (CHOOSE i \in 1..Len(s) : s[i] = c /\ \A j \in (i+1)..Len(s) : s[j] # c) - 1
    ELSE -1

\* s.replace(c, '')
Remove(s, c) == SelectSeq(s, LAMBDA x : x # c)

\* s.replace(c, r) for single characters c and r
Replace(s, c, r) == [i \in 1..Len(s) |-> IF s[i] = c THEN r ELSE s[i]]

\* a < b for text, by code point (Python's str ordering)
RECURSIVE StrLess(_, _)
StrLess(a, b) ==
    IF b = <<>> THEN FALSE
    ELSE IF a = <<>> THEN TRUE
    ELSE IF a[1] # b[1] THEN Code(a[1]) < Code(b[1])
    ELSE StrLess(Tail(a), Tail(b))

\* every text over the characters cs of length at most n
TextsUpTo(cs, n) == UNION {[1..k -> cs] : k \in 0..n}

-----------------------------------------------------------------------------
(* Numbers: exact rationals standing for Python floats *)

Abs(i) == IF i < 0 THEN -i ELSE i

RECURSIVE GCD(_, _)
GCD(a, b) == IF b = 0 THEN a ELSE GCD(b, a % b)

RECURSIVE Pow10(_)
Pow10(k) == IF k = 0 THEN 1 ELSE 10 * Pow10(k - 1)

Sign(i) == IF i < 0 THEN -1 ELSE IF i > 0 THEN 1 ELSE 0

\* the float n/d; a zero denominator gives NaN (0/0) or a signed infinity
Num(n, d) ==
    IF d = 0 THEN [k |-> "num", s |-> <<>>, n |-> Sign(n), d |-> 0]
    ELSE LET m == IF d < 0 THEN -n ELSE n
             e == Abs(d)
             g == GCD(Abs(m), e)
         IN  [k |-> "num", s |-> <<>>, n |-> m \div g, d |-> e \div g]

IntNum(i) == Num(i, 1)

Zero == IntNum(0)

NaN == Num(0, 0)

\* a text cell
Str(s) == [k |-> "str", s |-> s, n |-> 0, d |-> 1]

IsNum(x) == x.k = "num"

IsNaN(x) == x.k = "num" /\ x.d = 0 /\ x.n = 0

IsFinite(x) == x.k = "num" /\ x.d > 0

\* pandas' isna(): NaN in a numeric or in an object column
IsNA(x) == IsNaN(x)

NumAdd(a, b) ==
    IF a.d = 0 \/ b.d = 0
    THEN (IF IsNaN(a) \/ IsNaN(b) \/ (a.d = 0 /\ b.d = 0 /\ a.n # b.n) THEN NaN
          ELSE IF a.d = 0 THEN a ELSE b)
    ELSE Num(a.n * b.d + b.n * a.d, a.d * b.d)

NumMul(a, b) ==
    IF a.d = 0 \/ b.d = 0
    THEN (IF IsNaN(a) \/ IsNaN(b) \/ a.n = 0 \/ b.n = 0 THEN NaN
          ELSE Num(Sign(a.n) * Sign(b.n), 0))
    ELSE Num(a.n * b.n, a.d * b.d)

\* float64 division: x/0 is an infinity, 0/0 is NaN
NumDiv(a, b) ==
    IF a.d = 0 \/ b.d = 0
    THEN (IF IsNaN(a) \/ IsNaN(b) \/ (a.d = 0 /\ b.d = 0) THEN NaN
          ELSE IF a.d = 0 THEN Num(Sign(a.n) * (IF b.n < 0 THEN -1 ELSE 1), 0)
          ELSE Zero)
    ELSE IF b.n = 0 THEN Num(a.n, 0)
    ELSE Num(a.n * b.d, a.d * b.n)

NumLess(a, b) == a.d > 0 /\ b.d > 0 /\ a.n * b.d < b.n * a.d

NumGtZero(a) == IF a.d = 0 THEN a.n > 0 ELSE a.n > 0

-----------------------------------------------------------------------------
(* smart_to_float: src/pages/3_..._Google_Ads_Analyzer.py lines 228-246 *)

NumericChars == Digits \cup {",", ".", "-"}

\* re.sub(r'[^0-9,.-]', '', s)
KeepNumeric(s) == SelectSeq(s, LAMBDA c : c \in NumericChars)

\* mutant: a lone comma is dropped as a thousands separator
ResolveSeparators_CommaThousands(s) ==
    IF Contains(s, ",") /\ Contains(s, ".")
    THEN IF RFind(s, ",") > RFind(s, ".")
         THEN Replace(Remove(s, "."), ",", ".")
         ELSE Remove(s, ",")
    ELSE Remove(s, ",")

\* mutant: the separator occurring first is taken for the decimal point
ResolveSeparators_FirstWins(s) ==
    IF Contains(s, ",") /\ Contains(s, ".")
    THEN IF RFind(s, ",") < RFind(s, ".")
         THEN Replace(Remove(s, "."), ",", ".")
         ELSE Remove(s, ",")
    ELSE IF Contains(s, ",") THEN Replace(s, ",", ".") ELSE s

\* lines 235-242: decide which separator is the decimal point
ResolveSeparators(s) ==
    IF Contains(s, ",") /\ Contains(s, ".")
    THEN IF RFind(s, ",") > RFind(s, ".")
         THEN Replace(Remove(s, "."), ",", ".")
         ELSE Remove(s, ",")
    ELSE IF Contains(s, ",") THEN Replace(s, ",", ".") ELSE s

\* the unsigned part of a float literal
Unsigned(s) == IF s # <<>> /\ s[1] = "-" THEN Tail(s) ELSE s

CountOf(s, c) == Len(SelectSeq(s, LAMBDA x : x = c))

\* float(s) succeeds, for s over digits, '.' and '-': an optional leading
\* sign, at least one digit, at most one point
IsFloatLiteral(s) ==
    LET u == Unsigned(s)
    IN  /\ ~Contains(u, "-")
        /\ CountOf(u, ".") <= 1
        /\ \E i \in 1..Len(u) : u[i] \in Digits

RECURSIVE DigitsToInt(_)
DigitsToInt(ds) ==
    IF ds = <<>> THEN 0
    ELSE 10 * DigitsToInt(SubSeq(ds, 1, Len(ds) - 1)) + DigitVal(ds[Len(ds)])

\* mutant: the sign is lost
FloatOf_Unsigned(s) ==
    LET u    == Unsigned(s)
        ds   == SelectSeq(u, LAMBDA c : c \in Digits)
        frac == IF Contains(u, ".") THEN Len(u) - (RFind(u, ".") + 1) ELSE 0
    IN  Num(DigitsToInt(ds), Pow10(frac))

\* float(s) for a float literal s
FloatOf(s) ==
    LET u    == Unsigned(s)
        ds   == SelectSeq(u, LAMBDA c : c \in Digits)
        frac == IF Contains(u, ".") THEN Len(u) - (RFind(u, ".") + 1) ELSE 0
        sgn  == IF s # <<>> /\ s[1] = "-" THEN -1 ELSE 1
    IN  Num(sgn * DigitsToInt(ds), Pow10(frac))

\* mutant: a failed parse is coerced to NaN
FloatOrZero_NaN(s) == IF IsFloatLiteral(s) THEN FloatOf(s) ELSE NaN

\* lines 243-246: float(s), 0.0 when it raises
FloatOrZero(s) == IF IsFloatLiteral(s) THEN FloatOf(s) ELSE Zero

\* mutant: a number is converted with int() instead of float()
smart_to_float_Truncates(x) ==
    IF IsNum(x) THEN (IF IsFinite(x) THEN IntNum(x.n \div x.d) ELSE x)
    ELSE LET s == Strip(x.s)
         IN  IF s = <<>> THEN Zero
             ELSE FloatOrZero(ResolveSeparators(KeepNumeric(s)))

smart_to_float(x) ==
    IF IsNum(x) THEN x
    ELSE LET s == Strip(x.s)
         IN  IF s = <<>> THEN Zero
             ELSE FloatOrZero(ResolveSeparators(KeepNumeric(s)))

-----------------------------------------------------------------------------
(* connect_google_sheets: lines 108-158 *)

\* the canonical field names
F_date == <<"d", "a", "t", "e">>
F_campaign == <<"c", "a", "m", "p", "a", "i", "g", "n">>
F_impressions == <<"i", "m", "p", "r", "e", "s", "s", "i", "o", "n", "s">>
F_clicks == <<"c", "l", "i", "c", "k", "s">>
F_cost == <<"c", "o", "s", "t">>
F_conversions == <<"c", "o", "n", "v", "e", "r", "s", "i", "o", "n", "s">>
F_conversion_value ==
    <<"c", "o", "n", "v", "e", "r", "s", "i", "o", "n", "_", "v", "a", "l", "u", "e">>
F_ctr == <<"c", "t", "r">>
F_avg_cpc == <<"a", "v", "g", "_", "c", "p", "c">>
F_day == <<"d", "a", "y">>

\* alias_map (lines 123-141) as (label, canonical name) pairs
alias_map ==
    << <<F_date, F_date>>,
       <<<<"n", "g", "à", "y">>, F_date>>,
       <<F_day, F_date>>,
       <<F_campaign, F_campaign>>,
       <<<<"i", "m", "p", "r", ".">>, F_impressions>>,
       <<<<"i", "m", "p", "r">>, F_impressions>>,
       <<F_impressions, F_impressions>>,
       <<F_clicks, F_clicks>>,
       <<F_cost, F_cost>>,
       <<<<"s", "p", "e", "n", "d">>, F_cost>>,
       <<F_conversions, F_conversions>>,
       <<<<"c", "o", "n", "v", ".", " ", "v", "a", "l", "u", "e">>, F_conversion_value>>,
       <<<<"c", "o", "n", "v", "e", "r", "s", "i", "o", "n", " ", "v", "a", "l", "u", "e">>,
         F_conversion_value>>,
       <<<<"v", "a", "l", "u", "e">>, F_conversion_value>>,
       <<F_ctr, F_ctr>>,
       <<<<"a", "v", "g", ".", " ", "c", "p", "c">>, F_avg_cpc>>,
       <<<<"c", "p", "c">>, F_avg_cpc>> >>

\* alias_map.get(key, key)
AliasGet(key) ==
    IF \E i \in 1..Len(alias_map) : alias_map[i][1] = key
    THEN alias_map[CHOOSE i \in 1..Len(alias_map) : alias_map[i][1] = key][2]
    ELSE key

\* mutant: the label is trimmed and lower-cased but not looked up
normalize_header_NoAlias(h) == Lower(Strip(h))

\* lines 143-145
normalize_header(h) == AliasGet(Lower(Strip(h)))

\* line 115: the cells of a row that are not blank
NonEmpty(row) == SelectSeq(row, LAMBDA c : Strip(c) # <<>>)

\* mutant: one non-empty cell is enough for a header row
IsHeaderRow_OneCell(row) ==
    LET non_empty == NonEmpty(row)
    IN  /\ Len(non_empty) >= 1
        /\ Cardinality({Lower(Strip(non_empty[i])) : i \in 1..Len(non_empty)})
               = Len(non_empty)

\* line 116: at least two non-empty cells, all distinct once trimmed and lower-cased
IsHeaderRow(row) ==
    LET non_empty == NonEmpty(row)
    IN  /\ Len(non_empty) >= 2
        /\ Cardinality({Lower(Strip(non_empty[i])) : i \in 1..Len(non_empty)})
               = Len(non_empty)

\* line 114: the scan looks at values[:10]
HeaderScanRows == 10

Min(a, b) == IF a < b THEN a ELSE b

\* lines 113-118: the loop from row i on; 0 when it ends without a break
RECURSIVE ScanHeader(_, _)
ScanHeader(vals, i) ==
    IF i >= Min(Len(vals), HeaderScanRows) THEN 0
    ELSE IF IsHeaderRow(vals[i + 1]) THEN i
    ELSE ScanHeader(vals, i + 1)

\* "col_N" for column N (line 147)
RECURSIVE Decimal(_)
Decimal(i) ==
    IF i < 10 THEN <<Ascii[Code("0") + i]>>
    ELSE Decimal(i \div 10) \o <<Ascii[Code("0") + (i % 10)]>>

\* mutant: the position is counted from 0
ColName_ZeroBased(idx) == <<"c", "o", "l", "_">> \o Decimal(idx - 1)

ColName(idx) == <<"c", "o", "l", "_">> \o Decimal(idx)

\* line 147
Headers(raw_headers) ==
    [idx \in 1..Len(raw_headers) |->
        IF Strip(raw_headers[idx]) # <<>> THEN normalize_header(raw_headers[idx])
        ELSE ColName(idx)]

\* mutant: a cell of spaces counts as content
IsBlankRow_NoStrip(row) == \A i \in 1..Len(row) : row[i] = <<>>

\* line 152: every cell of the row is blank
IsBlankRow(row) == \A i \in 1..Len(row) : Strip(row[i]) = <<>>

\* [x] * n: the empty list when n is not positive
Repeat(x, n) == [i \in 1..(IF n > 0 THEN n ELSE 0) |-> x]

\* lines 154-155: the dict built from one row; a repeated key keeps its last value
RecordOf(hs, row) ==
    LET padded == row \o Repeat(<<>>, Len(hs) - Len(row))
    IN  [h \in {hs[i] : i \in 1..Len(hs)} |->
            Str(padded[CHOOSE i \in 1..Len(hs) :
                          hs[i] = h /\ \A j \in (i + 1)..Len(hs) : hs[j] # h])]

\* lines 150-156
RECURSIVE BuildRecords(_, _)
BuildRecords(hs, rows) ==
    IF rows = <<>> THEN <<>>
    ELSE IF IsBlankRow(rows[1]) THEN BuildRecords(hs, Tail(rows))
    ELSE <<RecordOf(hs, rows[1])>> \o BuildRecords(hs, Tail(rows))

\* lines 108-158
ConnectGoogleSheets ==
    /\ pc = "sheet"
    /\ pc' = "connected"
    /\ IF values = <<>>
       THEN /\ records' = <<>>
            /\ UNCHANGED <<header_row_idx, headers>>
       ELSE /\ header_row_idx' = ScanHeader(values, 0)
            /\ headers' = Headers(values[header_row_idx' + 1])
            /\ records' = BuildRecords(headers',
                              SubSeq(values, header_row_idx' + 2, Len(values)))
    /\ UNCHANGED <<cell, num, values, df, summary, campaign_stats, top_campaigns,
                   cursor_file, ads_data_file,
                   ads_currency, ads_cost_thousands_vnd,
                   fileVars, storeVars>>

-----------------------------------------------------------------------------
(* connect_google_sheets of the GA4 + Ads page:                            *)
(* src/pages/4_..._GA4_+_Ads_Analyzer.py lines 84-128.  It is the function  *)
(* above with an alias_map that has no entry for 'day'.                     *)

\* alias_map (lines 97-114)
alias_map_ga4 ==
    << <<F_date, F_date>>,
       <<<<"n", "g", "à", "y">>, F_date>>,
       <<F_campaign, F_campaign>>,
       <<<<"i", "m", "p", "r", ".">>, F_impressions>>,
       <<<<"i", "m", "p", "r">>, F_impressions>>,
       <<F_impressions, F_impressions>>,
       <<F_clicks, F_clicks>>,
       <<F_cost, F_cost>>,
       <<<<"s", "p", "e", "n", "d">>, F_cost>>,
       <<F_conversions, F_conversions>>,
       <<<<"c", "o", "n", "v", ".", " ", "v", "a", "l", "u", "e">>, F_conversion_value>>,
       <<<<"c", "o", "n", "v", "e", "r", "s", "i", "o", "n", " ", "v", "a", "l", "u", "e">>, F_conversion_value>>,
       <<<<"v", "a", "l", "u", "e">>, F_conversion_value>>,
       <<F_ctr, F_ctr>>,
       <<<<"a", "v", "g", ".", " ", "c", "p", "c">>, F_avg_cpc>>,
       <<<<"c", "p", "c">>, F_avg_cpc>> >>

\* alias_map.get(key, key)
AliasGet_ga4(key) ==
    IF \E i \in 1..Len(alias_map_ga4) : alias_map_ga4[i][1] = key
    THEN alias_map_ga4[CHOOSE i \in 1..Len(alias_map_ga4) : alias_map_ga4[i][1] = key][2]
    ELSE key

\* lines 116-118
normalize_header_ga4(h) == AliasGet_ga4(Lower(Strip(h)))

\* line 120
Headers_ga4(raw_headers) ==
    [idx \in 1..Len(raw_headers) |->
        IF Strip(raw_headers[idx]) # <<>> THEN normalize_header_ga4(raw_headers[idx])
        ELSE ColName(idx)]

\* lines 84-128
ConnectGoogleSheetsGA4 ==
    /\ pc = "sheet_ga4"
    /\ pc' = "connected_ga4"
    /\ IF values = <<>>
       THEN /\ records' = <<>>
            /\ UNCHANGED <<header_row_idx, headers>>
       ELSE /\ header_row_idx' = ScanHeader(values, 0)
            /\ headers' = Headers_ga4(values[header_row_idx' + 1])
            /\ records' = BuildRecords(headers',
                              SubSeq(values, header_row_idx' + 2, Len(values)))
    /\ UNCHANGED <<cell, num, values, df, summary, campaign_stats, top_campaigns,
                   cursor_file, ads_data_file,
                   ads_currency, ads_cost_thousands_vnd,
                   fileVars, storeVars>>

-----------------------------------------------------------------------------
(* DataFrames: the column names in order, and the rows as functions *)

NoFrame == [columns |-> <<>>, rows |-> <<>>]

\* df.empty
Empty(f) == f.rows = <<>> \/ f.columns = <<>>

\* col in df.columns
HasColumn(f, col) == \E i \in 1..Len(f.columns) : f.columns[i] = col

\* the first occurrence of each element of a sequence
RECURSIVE Distinct(_)
Distinct(s) ==
    IF s = <<>> THEN <<>>
    ELSE <<s[1]>> \o Distinct(SelectSeq(Tail(s), LAMBDA x : x # s[1]))

\* pd.DataFrame(data) for a list of dicts whose keys come in the order keyorder:
\* a key a record lacks becomes NaN
DataFrame(data, keyorder) ==
    LET cols == SelectSeq(keyorder,
                    LAMBDA k : \E i \in 1..Len(data) : k \in DOMAIN data[i])
    IN  [columns |-> cols,
         rows |-> [i \in 1..Len(data) |->
                      [c \in {cols[j] : j \in 1..Len(cols)} |->
                          IF c \in DOMAIN data[i] THEN data[i][c] ELSE NaN]]]

\* df.rename(columns={old: new})
Rename(f, old, new) ==
    [columns |-> [i \in 1..Len(f.columns) |->
                     IF f.columns[i] = old THEN new ELSE f.columns[i]],
     rows |-> [i \in 1..Len(f.rows) |->
                  [c \in ((DOMAIN f.rows[i]) \ {old}) \cup {new} |->
                      IF c = new THEN f.rows[i][old] ELSE f.rows[i][c]]]]

\* Series.fillna(0) on one value
FillNa0(x) == IF IsNA(x) THEN Zero ELSE x

\* mutant: a NaN in the column makes the sum NaN (skipna=False)
RECURSIVE ColumnSum_KeepNaN(_, _)
ColumnSum_KeepNaN(rows, col) ==
    IF rows = <<>> THEN Zero
    ELSE NumAdd(ColumnSum_KeepNaN(SubSeq(rows, 1, Len(rows) - 1), col), rows[Len(rows)][col])

\* df[col].sum(): NaN is skipped, an empty sum is 0
RECURSIVE ColumnSum(_, _)
ColumnSum(rows, col) ==
    IF rows = <<>> THEN Zero
    ELSE LET v == rows[Len(rows)][col]
             rest == ColumnSum(SubSeq(rows, 1, Len(rows) - 1), col)
         IN  IF IsNA(v) THEN rest ELSE NumAdd(rest, v)

-----------------------------------------------------------------------------
(* load_ads_data_from_sheets: lines 222-265 *)

\* line 248
numeric_fields ==
    {F_impressions, F_clicks, F_cost, F_conversions, F_conversion_value, F_ctr, F_avg_cpc}

\* lines 249-251: df[col] = df[col].apply(smart_to_float) for the numeric fields
NormalizeColumns(f) ==
    [columns |-> f.columns,
     rows |-> [i \in 1..Len(f.rows) |->
                  [c \in DOMAIN f.rows[i] |->
                      IF c \in numeric_fields THEN smart_to_float(f.rows[i][c])
                      ELSE f.rows[i][c]]]]

\* lines 223-251: the DataFrame of the records, numeric fields normalized
NormalizedFrame(data, hs) ==
    LET raw == DataFrame(data, Distinct(hs))
        named == IF HasColumn(raw, F_day) /\ ~HasColumn(raw, F_date)
                 THEN Rename(raw, F_day, F_date) ELSE raw
    IN  NormalizeColumns(named)

\* load_cursor (lines 58-67): 0 when there is no cursor file
load_cursor == IF cursor_file.exists THEN cursor_file.count ELSE 0

\* a file that does not exist
NoCursorFile == [exists |-> FALSE, count |-> 0]

NoDataFile == [exists |-> FALSE, data |-> <<>>]

\* two store names, one a prefix of the other
Store_shop == <<"s", "h", "o", "p">>
Store_shop_eu == <<"s", "h", "o", "p", "_", "e", "u">>

\* no file name
NoFile == <<>>

NoStoresFile == [exists |-> FALSE, format |-> "none", stores |-> <<>>, items |-> <<>>]

\* the names under which a file of data/ stands in unwritable
W_ads_data_file == "ads_data_file"
W_cursor_file == "cursor_file"

DataDirFiles == {W_ads_data_file, W_cursor_file}

\* mutant: the files are rewritten whenever the count differs from the cursor
HasNewRows_Differs(n, current_cursor) == n # current_cursor

\* line 255: if len(data) > current_cursor
HasNewRows(n, current_cursor) == n > current_cursor

\* lines 222-265, for the records connect_google_sheets returned.
\* save_ads_data_to_json (lines 178-198) writes nothing for an empty table or
\* when the write raises; save_cursor (lines 69-79) writes nothing when the
\* write raises; neither result is looked at (lines 259, 262).  An empty table
\* sends load_ads_data on to the import files (lines 308-314).
LoadAdsDataFromSheets ==
    /\ pc = "connected"
    /\ df' = NormalizedFrame(records, headers)
    /\ pc' = IF Empty(df') THEN "import" ELSE "loaded"
    /\ IF HasNewRows(Len(records), load_cursor)
       THEN /\ ads_data_file' =
                   IF Empty(df') \/ W_ads_data_file \in unwritable
                   THEN ads_data_file
                   ELSE [exists |-> TRUE, data |-> df'.rows]
            /\ cursor_file' =
                   IF W_cursor_file \in unwritable
                   THEN cursor_file
                   ELSE [exists |-> TRUE, count |-> Len(records)]
       ELSE UNCHANGED <<cursor_file, ads_data_file>>
    /\ UNCHANGED <<cell, num, values, header_row_idx, headers, records, summary,
                   campaign_stats, top_campaigns,
                   ads_currency, ads_cost_thousands_vnd,
                   fileVars, storeVars>>

-----------------------------------------------------------------------------
(* main: the unit-scale step, lines 624-648.  The cost, conversion_value and *)
(* avg_cpc columns hold floats here: the sheet path has normalized them and  *)
(* the modelled JSON files hold numbers (NaN for a null).                    *)

\* the options of the currency selectbox (lines 505-510)
Currencies == {"VND", "USD"}

\* lines 630 and 645: the factor of the correction
ScaleFactor == 1000

\* line 641: the thresholds of the heuristic
MaxCostLimit == 10000

MeanCpcLimit == 50

\* lines 628 and 643
scale_cols == {F_cost, F_conversion_value}

\* pd.to_numeric(x, errors='coerce') on one value: a float is kept, a text
\* is parsed, and what is no number becomes NaN
ToNumeric(x) ==
    IF IsNum(x) THEN x
    ELSE LET s == Strip(x.s)
         IN  IF (\A i \in 1..Len(s) : s[i] \in Digits \cup {".", "-"}) /\ IsFloatLiteral(s)
             THEN FloatOf(s) ELSE NaN

\* lines 628-630: df[col] = pd.to_numeric(df[col], errors='coerce').fillna(0) * 1000
ScaleExplicit(f) ==
    [columns |-> f.columns,
     rows |-> [i \in 1..Len(f.rows) |->
                  [c \in DOMAIN f.rows[i] |->
                      IF c \in scale_cols
                      THEN NumMul(FillNa0(ToNumeric(f.rows[i][c])), IntNum(ScaleFactor))
                      ELSE f.rows[i][c]]]]

\* lines 643-645: df[col] = df[col] * 1000
ScaleHeuristic(f) ==
    [columns |-> f.columns,
     rows |-> [i \in 1..Len(f.rows) |->
                  [c \in DOMAIN f.rows[i] |->
                      IF c \in scale_cols THEN NumMul(f.rows[i][c], IntNum(ScaleFactor))
                      ELSE f.rows[i][c]]]]

\* df[col].replace([np.inf, -np.inf], np.nan).dropna(): the finite values
FiniteValues(f, col) ==
    LET column == [i \in 1..Len(f.rows) |-> f.rows[i][col]]
    IN  SelectSeq(column, LAMBDA v : IsFinite(v))

\* Series.max(): NaN for an empty series
RECURSIVE SeriesMax(_)
SeriesMax(vs) ==
    IF vs = <<>> THEN NaN
    ELSE IF Len(vs) = 1 THEN vs[1]
    ELSE LET m == SeriesMax(Tail(vs))
         IN  IF NumLess(vs[1], m) THEN m ELSE vs[1]

RECURSIVE SeriesSum(_)
SeriesSum(vs) == IF vs = <<>> THEN Zero ELSE NumAdd(vs[1], SeriesSum(Tail(vs)))

\* Series.mean(): NaN for an empty series
SeriesMean(vs) == NumDiv(SeriesSum(vs), IntNum(Len(vs)))

\* line 638
max_cost(f) == SeriesMax(FiniteValues(f, F_cost))

\* line 639: 0 when the table has no avg_cpc column
mean_cpc(f) == IF HasColumn(f, F_avg_cpc) THEN SeriesMean(FiniteValues(f, F_avg_cpc)) ELSE Zero

\* mutant: the mean CPC is not looked at
HeuristicHolds_CostOnly(f) == NumLess(max_cost(f), IntNum(MaxCostLimit))

\* line 641; a comparison with NaN is false
HeuristicHolds(f) ==
    /\ NumLess(max_cost(f), IntNum(MaxCostLimit))
    /\ (mean_cpc(f) = Zero \/ NumLess(mean_cpc(f), IntNum(MeanCpcLimit)))

\* mutant: the option alone decides, whatever the currency
ExplicitApplies_AnyCurrency(currency, option) == option

\* mutant: the option is never honoured
ExplicitApplies_Never(currency, option) == FALSE

\* line 626
ExplicitApplies(currency, option) == currency = "VND" /\ option

\* mutant: the heuristic also runs when the option is on
HeuristicApplies_IgnoresOption(f, currency, option) ==
    currency = "VND" /\ HasColumn(f, F_cost)

\* line 636
HeuristicApplies(f, currency, option) ==
    currency = "VND" /\ HasColumn(f, F_cost) /\ ~option

\* lines 625-648: the explicit scaling, then the heuristic on what it left
UnitScale(f, currency, option) ==
    LET explicit == IF ExplicitApplies(currency, option) THEN ScaleExplicit(f) ELSE f
    IN  IF HeuristicApplies(explicit, currency, option) /\ HeuristicHolds(explicit)
        THEN ScaleHeuristic(explicit) ELSE explicit

\* lines 624-648, reached when the loaded table is not empty (line 624)
\* mutant: the scaled table is written back to the main file
ApplyUnitScale_SavesTable ==
    /\ pc = "loaded"
    /\ ~Empty(df)
    /\ pc' = "scaled"
    /\ df' = UnitScale(df, ads_currency, ads_cost_thousands_vnd)
    /\ ads_data_file' = [exists |-> TRUE, data |-> df'.rows]
    /\ UNCHANGED <<cell, num, values, header_row_idx, headers, records, summary,
                   campaign_stats, top_campaigns, cursor_file,
                   ads_currency, ads_cost_thousands_vnd,
                   fileVars, storeVars>>

ApplyUnitScale ==
    /\ pc = "loaded"
    /\ ~Empty(df)
    /\ pc' = "scaled"
    /\ df' = UnitScale(df, ads_currency, ads_cost_thousands_vnd)
    /\ UNCHANGED <<cell, num, values, header_row_idx, headers, records, summary,
                   campaign_stats, top_campaigns, cursor_file, ads_data_file,
                   ads_currency, ads_cost_thousands_vnd,
                   fileVars, storeVars>>

-----------------------------------------------------------------------------
(* analyze_ads_performance: lines 368-398 *)

\* df[col].sum() if col in df.columns else 0
Total(f, col) == IF HasColumn(f, col) THEN ColumnSum(f.rows, col) ELSE Zero

\* (a / b * k) if b > 0 else 0
RatioTimes(a, b, k) == IF NumGtZero(b) THEN NumMul(NumDiv(a, b), IntNum(k)) ELSE Zero

\* mutant: the division is not guarded
Ratio_Unguarded(a, b) == NumDiv(a, b)

\* (a / b) if b > 0 else 0
Ratio(a, b) == IF NumGtZero(b) THEN NumDiv(a, b) ELSE Zero

analyze_ads_performance(f) ==
    IF Empty(f) THEN <<>>
    ELSE LET total_impressions == Total(f, F_impressions)
             total_clicks == Total(f, F_clicks)
             total_cost == Total(f, F_cost)
             total_conversions == Total(f, F_conversions)
             total_conversion_value == Total(f, F_conversion_value)
         IN  [total_impressions |-> total_impressions,
              total_clicks |-> total_clicks,
              total_cost |-> total_cost,
              total_conversions |-> total_conversions,
              total_conversion_value |-> total_conversion_value,
              ctr |-> RatioTimes(total_clicks, total_impressions, 100),
              cpc |-> Ratio(total_cost, total_clicks),
              cpm |-> RatioTimes(total_cost, total_impressions, 1000),
              conversion_rate |-> RatioTimes(total_conversions, total_clicks, 100),
              roas |-> Ratio(total_conversion_value, total_cost)]

\* line 667, once the unit-scale step is done
AnalyzeAdsPerformance ==
    /\ pc = "scaled"
    /\ pc' = "analyzed"
    /\ summary' = analyze_ads_performance(df)
    /\ UNCHANGED <<cell, num, values, header_row_idx, headers, records, df,
                   campaign_stats, top_campaigns, cursor_file, ads_data_file,
                   ads_currency, ads_cost_thousands_vnd,
                   fileVars, storeVars>>

-----------------------------------------------------------------------------
(* safe_group_sum (lines 400-422) and the top-campaigns block (lines 897-905) *)

\* line 404
expected_cols == <<F_impressions, F_clicks, F_cost, F_conversions, F_conversion_value>>

\* texts in ascending order
RECURSIVE SortedTexts(_)
SortedTexts(S) ==
    IF S = {} THEN <<>>
    ELSE LET m == CHOOSE x \in S : \A y \in S : ~StrLess(y, x)
         IN  <<m>> \o SortedTexts(S \ {m})

\* groupby(by_col): the keys in ascending order, rows with a NaN key left out
GroupKeys(f, by_col) ==
    SortedTexts({f.rows[i][by_col].s : i \in {j \in 1..Len(f.rows) : ~IsNA(f.rows[j][by_col])}})

\* the rows of one group
GroupRows(f, by_col, key) ==
    SelectSeq(f.rows, LAMBDA r : ~IsNA(r[by_col]) /\ r[by_col].s = key)

\* mutant: the expected columns the input lacks are not added
safe_group_sum_NoFill(f, by_col) ==
    LET allcols == <<by_col>> \o expected_cols
        present == SelectSeq(expected_cols, LAMBDA c : HasColumn(f, c))
    IN  IF ~HasColumn(f, by_col) THEN [columns |-> allcols, rows |-> <<>>]
        ELSE IF present = <<>>
        THEN LET keys == Distinct([i \in 1..Len(f.rows) |-> f.rows[i][by_col]])
             IN  [columns |-> allcols,
                  rows |-> [i \in 1..Len(keys) |->
                               [c \in {allcols[j] : j \in 1..Len(allcols)} |->
                                   IF c = by_col THEN keys[i] ELSE Zero]]]
        ELSE LET keys == GroupKeys(f, by_col)
                 cols == <<by_col>> \o present
             IN  [columns |-> cols,
                  rows |-> [i \in 1..Len(keys) |->
                               [c \in {cols[j] : j \in 1..Len(cols)} |->
                                   IF c = by_col THEN Str(keys[i])
                                   ELSE ColumnSum(GroupRows(f, by_col, keys[i]), c)]]]

safe_group_sum(f, by_col) ==
    LET allcols == <<by_col>> \o expected_cols
        present == SelectSeq(expected_cols, LAMBDA c : HasColumn(f, c))
    IN  IF ~HasColumn(f, by_col) THEN [columns |-> allcols, rows |-> <<>>]
        ELSE IF present = <<>>
        THEN LET keys == Distinct([i \in 1..Len(f.rows) |-> f.rows[i][by_col]])
             IN  [columns |-> allcols,
                  rows |-> [i \in 1..Len(keys) |->
                               [c \in {allcols[j] : j \in 1..Len(allcols)} |->
                                   IF c = by_col THEN keys[i] ELSE Zero]]]
        ELSE LET keys == GroupKeys(f, by_col)
                 cols == <<by_col>> \o present
                           \o SelectSeq(expected_cols, LAMBDA c : ~HasColumn(f, c))
             IN  [columns |-> cols,
                  rows |-> [i \in 1..Len(keys) |->
                               [c \in {cols[j] : j \in 1..Len(cols)} |->
                                   IF c = by_col THEN Str(keys[i])
                                   ELSE IF HasColumn(f, c)
                                   THEN ColumnSum(GroupRows(f, by_col, keys[i]), c)
                                   ELSE Zero]]]

F_CTR == <<"C", "T", "R">>
F_CPC == <<"C", "P", "C">>
F_ROAS == <<"R", "O", "A", "S">>

\* lines 900-902: the three ratio columns added to the grouped frame
WithRatios(g) ==
    [columns |-> g.columns \o <<F_CTR, F_CPC, F_ROAS>>,
     rows |-> [i \in 1..Len(g.rows) |->
                  LET r == g.rows[i]
                  IN  [c \in (DOMAIN r) \cup {F_CTR, F_CPC, F_ROAS} |->
                          IF c = F_CTR
                          THEN FillNa0(NumMul(NumDiv(r[F_clicks], r[F_impressions]), IntNum(100)))
                          ELSE IF c = F_CPC THEN FillNa0(NumDiv(r[F_cost], r[F_clicks]))
                          ELSE IF c = F_ROAS
                          THEN FillNa0(NumDiv(r[F_conversion_value], r[F_cost]))
                          ELSE r[c]]]]

\* the rows in descending order of col, the first n of them; equal values
\* keep their order in the frame (keep='first')
RECURSIVE LargestRows(_, _, _)
LargestRows(rows, n, col) ==
    IF n = 0 \/ rows = <<>> THEN <<>>
    ELSE LET i == CHOOSE a \in 1..Len(rows) :
                      /\ \A b \in 1..Len(rows) : ~NumLess(rows[a][col], rows[b][col])
                      /\ \A b \in 1..(a - 1) : NumLess(rows[b][col], rows[a][col])
         IN  <<rows[i]>>
               \o LargestRows(SubSeq(rows, 1, i - 1) \o SubSeq(rows, i + 1, Len(rows)),
                              n - 1, col)

\* DataFrame.nlargest(n, col)
nlargest(f, n, col) == [columns |-> f.columns, rows |-> LargestRows(f.rows, n, col)]

\* line 905: the ten campaigns with the largest cost
TopN == 10

\* lines 897-905
\* safe_group_sum applied to the loaded table, by campaign or by date
\* (lines 762-784, 898)
ApplySafeGroupSum ==
    /\ pc = "loaded"
    /\ pc' = "grouped"
    /\ \E by_col \in {F_campaign, F_date} :
           campaign_stats' = safe_group_sum(df, by_col)
    /\ UNCHANGED <<cell, num, values, header_row_idx, headers, records, df, summary,
                   top_campaigns, cursor_file, ads_data_file,
                   ads_currency, ads_cost_thousands_vnd,
                   fileVars, storeVars>>

TopCampaigns ==
    /\ pc = "analyzed"
    /\ HasColumn(df, F_campaign)
    /\ pc' = "done"
    /\ campaign_stats' = WithRatios(safe_group_sum(df, F_campaign))
    /\ top_campaigns' = nlargest(campaign_stats', TopN, F_cost)
    /\ UNCHANGED <<cell, num, values, header_row_idx, headers, records, df, summary,
                   cursor_file, ads_data_file,
                   ads_currency, ads_cost_thousands_vnd,
                   fileVars, storeVars>>

-----------------------------------------------------------------------------
(* load_ads_data, the fallback to the main JSON file: lines 319-345 *)

\* the order of the keys in the records of a JSON file
JsonKeyOrder == <<F_date, F_campaign>> \o expected_cols \o <<F_ctr, F_avg_cpc>>

LoadMainJsonFile ==
    /\ pc = "json"
    /\ pc' = "loaded"
    /\ df' = IF ads_data_file.exists THEN DataFrame(ads_data_file.data, JsonKeyOrder)
             ELSE NoFrame
    /\ UNCHANGED <<cell, num, values, header_row_idx, headers, records, summary,
                   campaign_stats, top_campaigns, cursor_file, ads_data_file,
                   ads_currency, ads_cost_thousands_vnd,
                   fileVars, storeVars>>

\* file names: data/google_ads_<store>.json (lines 50-52)
Text_data_google_ads ==
    <<"d", "a", "t", "a", "/", "g", "o", "o", "g", "l", "e", "_", "a", "d", "s", "_">>

Text_json == <<".", "j", "s", "o", "n">>

get_ads_data_file(store) == Text_data_google_ads \o store \o Text_json

StartsWith(s, p) == Len(s) >= Len(p) /\ SubSeq(s, 1, Len(p)) = p

EndsWith(s, q) == Len(s) >= Len(q) /\ SubSeq(s, Len(s) - Len(q) + 1, Len(s)) = q

\* mutant: only names whose * part has no further underscore are taken
GlobMatches_OneWord(name, store) ==
    LET prefix == Text_data_google_ads \o store \o <<"_">>
    IN  /\ Len(name) >= Len(prefix) + Len(Text_json)
        /\ StartsWith(name, prefix)
        /\ EndsWith(name, Text_json)
        /\ ~Contains(SubSeq(name, Len(prefix) + 1, Len(name)), "_")

\* glob.glob(f"data/google_ads_{store_name}_*.json") (lines 276-277): the *
\* stands for any run of characters, the empty one included
GlobMatches(name, store) ==
    LET prefix == Text_data_google_ads \o store \o <<"_">>
    IN  /\ Len(name) >= Len(prefix) + Len(Text_json)
        /\ StartsWith(name, prefix)
        /\ EndsWith(name, Text_json)

\* the positions in data_files of the files the pattern matches
json_files(store) == {i \in 1..Len(data_files) : GlobMatches(data_files[i].name, store)}

\* max(json_files, key=os.path.getctime) (line 283): data_files is kept in
\* the order of creation
LatestOf(S) == CHOOSE i \in S : \A j \in S : j <= i

\* auto_import_json_files (lines 271-303), and lines 316-317 of load_ads_data.
\* A file that is no JSON, or a main file that cannot be written, raises and
\* yields the empty table; otherwise the main file is overwritten with what
\* was read, an empty list included.
AutoImportJsonFiles ==
    /\ pc = "import"
    /\ IF json_files(store_name) = {}
       THEN /\ latest_file' = NoFile
            /\ df' = NoFrame
            /\ UNCHANGED ads_data_file
       ELSE LET f == data_files[LatestOf(json_files(store_name))]
            IN  /\ latest_file' = f.name
                /\ IF f.valid /\ W_ads_data_file \notin unwritable
                   THEN /\ df' = DataFrame(f.data, JsonKeyOrder)
                        /\ ads_data_file' = [exists |-> TRUE, data |-> f.data]
                   ELSE /\ df' = NoFrame
                        /\ UNCHANGED ads_data_file
    /\ pc' = IF Empty(df') THEN "json" ELSE "loaded"
    /\ UNCHANGED <<cell, num, values, header_row_idx, headers, records, summary,
                   campaign_stats, top_campaigns, cursor_file,
                   ads_currency, ads_cost_thousands_vnd,
                   store_name, data_files, unwritable, storeVars>>

-----------------------------------------------------------------------------
(* Spec: a sheet is fetched, turned into records, normalized and analyzed. *)
(* The display currency is USD, so that the table analyzed is the table     *)
(* loaded.                                                                  *)

Text_Report == <<"R", "e", "p", "o", "r", "t">>
Text_Date == <<"D", "a", "t", "e">>
Text_Impr == <<"I", "m", "p", "r", ".">>
Text_Clicks == <<"C", "l", "i", "c", "k", "s">>
Text_Cost == <<"C", "o", "s", "t">>

\* the four rows of the worked example
ScenarioSheet ==
    << <<Text_Report>>,
       <<Text_Date, Text_Impr, Text_Clicks, Text_Cost>>,
       <<<<"2", "0", "2", "4", "-", "0", "1", "-", "0", "1">>, <<"1", ",", "0", "0", "0">>,
         <<"5", "0">>, <<"$", "1", "0", "0", ".", "0", "0">>>>,
       <<<<"2", "0", "2", "4", "-", "0", "1", "-", "0", "2">>, <<"2", "0", "0", "0">>,
         <<"8", "0">>, <<"2", "0", "0">>>> >>

\* rows that are no header row: a title, and two equal values
FillerRows == { <<Text_Report>>, <<<<"5">>, <<"5">>>> }

\* the rows a sheet is made of after its filler rows
TailRows ==
    { <<Text_Report>>,
      <<<<"x">>, <<" ", "X">>>>,
      <<<<>>, <<" ">>>>,
      <<Text_Date, Text_Cost>>,
      <<<<" ", "I", "m", "p", "r">>, <<>>, Text_Clicks>>,
      <<<<"5">>, <<"1", ",", "5">>, <<"-", "7">>>> }

\* p equal filler rows followed by at most MaxTail rows
Sheets ==
    { [i \in 1..p |-> filler] \o tail :
        p \in 0..MaxPad, filler \in FillerRows, tail \in TextsUpTo(TailRows, MaxTail) }

Init ==
    /\ pc = "sheet"
    /\ values \in Sheets \cup {ScenarioSheet}
    /\ cell = Str(<<>>)
    /\ num = NaN
    /\ header_row_idx = 0
    /\ headers = <<>>
    /\ records = <<>>
    /\ df = NoFrame
    /\ summary = <<>>
    /\ campaign_stats = NoFrame
    /\ top_campaigns = NoFrame
    /\ cursor_file = NoCursorFile
    /\ ads_data_file = NoDataFile
    /\ ads_currency = "USD"
    /\ ads_cost_thousands_vnd = TRUE
    /\ store_name = Store_shop
    /\ data_files = <<>>
    /\ latest_file = NoFile
    /\ unwritable = {}
    /\ stores_file = NoStoresFile
    /\ sessions = <<>>

Next ==
    \/ ConnectGoogleSheets
    \/ LoadAdsDataFromSheets
    \/ AutoImportJsonFiles
    \/ LoadMainJsonFile
    \/ ApplyUnitScale
    \/ AnalyzeAdsPerformance

Spec == Init /\ [][Next]_vars

-----------------------------------------------------------------------------
(* SpecHeader: connect_google_sheets of either page on sheets made of one  *)
(* row of labels and a few data rows; the Ads page goes on to load them    *)

\* labels: an alias of date on the Ads page only, two aliases of cost, a
\* blank, and a label that reads like a synthesized name
HeaderCells == { <<"D", "a", "y">>, <<" ", "S", "p", "e", "n", "d">>, <<"c", "o", "s", "t">>, <<" ">>, <<"c", "o", "l", "_", "2">> }

\* a short row, a long row and a blank row
DataRows ==
    { <<<<"1">>>>,
      <<<<"1">>, <<"2">>, <<"3">>, <<"4">>>>,
      <<<<>>, <<" ">>>> }

\* every label of either alias_map, as a sheet would spell it
AllLabels ==
    << <<"D", "a", "t", "e">>,
       <<"N", "g", "à", "y">>,
       <<"C", "a", "m", "p", "a", "i", "g", "n">>,
       <<"I", "m", "p", "r", ".">>,
       <<"I", "m", "p", "r">>,
       <<"I", "m", "p", "r", "e", "s", "s", "i", "o", "n", "s">>,
       <<"C", "l", "i", "c", "k", "s">>,
       <<"C", "o", "s", "t">>,
       <<"S", "p", "e", "n", "d">>,
       <<"C", "o", "n", "v", "e", "r", "s", "i", "o", "n", "s">>,
       <<"C", "o", "n", "v", ".", " ", "V", "a", "l", "u", "e">>,
       <<"C", "o", "n", "v", "e", "r", "s", "i", "o", "n", " ", "v", "a", "l", "u", "e">>,
       <<"V", "a", "l", "u", "e">>,
       <<"C", "T", "R">>,
       <<"A", "v", "g", ".", " ", "C", "P", "C">>,
       <<"C", "P", "C">>,
       <<"D", "a", "y">> >>

HeaderSheets ==
    { <<labels>> \o rows :
        labels \in TextsUpTo(HeaderCells, MaxHeaderLen), rows \in TextsUpTo(DataRows, MaxRows) }
    \cup { <<AllLabels, <<<<"1">>, <<"2">>>>>> }

InitHeader ==
    /\ pc \in {"sheet", "sheet_ga4"}
    /\ values \in HeaderSheets
    /\ cell = Str(<<>>)
    /\ num = NaN
    /\ header_row_idx = 0
    /\ headers = <<>>
    /\ records = <<>>
    /\ df = NoFrame
    /\ summary = <<>>
    /\ campaign_stats = NoFrame
    /\ top_campaigns = NoFrame
    /\ cursor_file = NoCursorFile
    /\ ads_data_file = NoDataFile
    /\ ads_currency = "VND"
    /\ ads_cost_thousands_vnd = TRUE
    /\ store_name = Store_shop
    /\ data_files = <<>>
    /\ latest_file = NoFile
    /\ unwritable = {}
    /\ stores_file = NoStoresFile
    /\ sessions = <<>>

NextHeader ==
    \/ ConnectGoogleSheets
    \/ ConnectGoogleSheetsGA4
    \/ LoadAdsDataFromSheets

SpecHeader == InitHeader /\ [][NextHeader]_vars

-----------------------------------------------------------------------------
(* SpecAgg: the main JSON file is loaded, analyzed and grouped by campaign, *)
(* with USD as the display currency.                                        *)

Campaign_A == <<"A">>
Campaign_B == <<"B">>

\* what a record of the file says about its campaign: A, B, or nothing
CampaignParts == { F_campaign :> Str(Campaign_A), F_campaign :> Str(Campaign_B), <<>> }

\* what a record of the file says about its metrics
MetricParts ==
    { F_impressions :> IntNum(1000) @@ F_clicks :> IntNum(50) @@ F_cost :> IntNum(100)
        @@ F_conversions :> IntNum(5) @@ F_conversion_value :> IntNum(300),
      F_cost :> IntNum(5),
      F_impressions :> IntNum(-5) @@ F_clicks :> IntNum(3),
      F_impressions :> Zero @@ F_clicks :> Zero @@ F_cost :> IntNum(5)
        @@ F_conversion_value :> IntNum(10),
      <<>> }

JsonRecords == { c @@ m : c \in CampaignParts, m \in MetricParts }

\* campaigns A, A, B with costs 10, 20, 5
ScenarioTable ==
    << F_campaign :> Str(Campaign_A) @@ F_cost :> IntNum(10),
       F_campaign :> Str(Campaign_A) @@ F_cost :> IntNum(20),
       F_campaign :> Str(Campaign_B) @@ F_cost :> IntNum(5) >>

JsonTables == TextsUpTo(JsonRecords, MaxRecords) \cup {ScenarioTable}

InitAgg ==
    /\ pc = "json"
    /\ ads_data_file \in {NoDataFile} \cup {[exists |-> TRUE, data |-> d] : d \in JsonTables}
    /\ cell = Str(<<>>)
    /\ num = NaN
    /\ values = <<>>
    /\ header_row_idx = 0
    /\ headers = <<>>
    /\ records = <<>>
    /\ df = NoFrame
    /\ summary = <<>>
    /\ campaign_stats = NoFrame
    /\ top_campaigns = NoFrame
    /\ cursor_file = NoCursorFile
    /\ ads_currency = "USD"
    /\ ads_cost_thousands_vnd = TRUE
    /\ store_name = Store_shop
    /\ data_files = <<>>
    /\ latest_file = NoFile
    /\ unwritable = {}
    /\ stores_file = NoStoresFile
    /\ sessions = <<>>

NextAgg ==
    \/ LoadMainJsonFile
    \/ ApplySafeGroupSum
    \/ ApplyUnitScale
    \/ AnalyzeAdsPerformance
    \/ TopCampaigns

SpecAgg == InitAgg /\ [][NextAgg]_vars

-----------------------------------------------------------------------------
(* SpecScale: the main JSON file is loaded and the unit-scale step is run, *)
(* for every setting of the currency selectbox and of the checkbox         *)

\* what a record of the file says about cost and conversion value; the
\* third one holds a null
CostParts ==
    { F_cost :> IntNum(5) @@ F_conversion_value :> IntNum(10),
      F_cost :> IntNum(10000),
      F_cost :> NaN,
      <<>> }

\* what a record of the file says about its average CPC; the third one
\* holds a null
CpcParts == { F_avg_cpc :> IntNum(40), F_avg_cpc :> IntNum(60), F_avg_cpc :> NaN, <<>> }

ScaleRecords == { c @@ a : c \in CostParts, a \in CpcParts }

\* cost values 5, 8, 3 and no avg_cpc
ScaleScenarioTable == << F_cost :> IntNum(5), F_cost :> IntNum(8), F_cost :> IntNum(3) >>

ScaleTables == TextsUpTo(ScaleRecords, MaxRecords) \cup {ScaleScenarioTable}

InitScale ==
    /\ pc = "json"
    /\ ads_data_file \in {NoDataFile} \cup {[exists |-> TRUE, data |-> d] : d \in ScaleTables}
    /\ ads_currency \in Currencies
    /\ ads_cost_thousands_vnd \in BOOLEAN
    /\ store_name = Store_shop
    /\ data_files = <<>>
    /\ latest_file = NoFile
    /\ unwritable = {}
    /\ stores_file = NoStoresFile
    /\ sessions = <<>>
    /\ cell = Str(<<>>)
    /\ num = NaN
    /\ values = <<>>
    /\ header_row_idx = 0
    /\ headers = <<>>
    /\ records = <<>>
    /\ df = NoFrame
    /\ summary = <<>>
    /\ campaign_stats = NoFrame
    /\ top_campaigns = NoFrame
    /\ cursor_file = NoCursorFile

NextScale ==
    \/ LoadMainJsonFile
    \/ ApplyUnitScale

SpecScale == InitScale /\ [][NextScale]_vars

-----------------------------------------------------------------------------
(* SpecReload: the page is run again and again for one store.  Between two  *)
(* runs the sheet may have grown, shrunk or stayed as it was, and files of  *)
(* data/ may have become writable or unwritable.                            *)

MaxSheetRows == 2

\* the cost cells of the sheet
CostCells == { <<"5">>, <<"8">> }

ReloadRows == { << <<"1">>, c >> : c \in CostCells }

\* a header row and at most MaxSheetRows data rows
ReloadSheets ==
    { << <<Text_Date, Text_Cost>> >> \o rows : rows \in TextsUpTo(ReloadRows, MaxSheetRows) }

InitReload ==
    /\ pc = "sheet"
    /\ values \in ReloadSheets
    /\ cell = Str(<<>>)
    /\ num = NaN
    /\ header_row_idx = 0
    /\ headers = <<>>
    /\ records = <<>>
    /\ df = NoFrame
    /\ summary = <<>>
    /\ campaign_stats = NoFrame
    /\ top_campaigns = NoFrame
    /\ cursor_file = NoCursorFile
    /\ ads_data_file = NoDataFile
    /\ ads_currency \in Currencies
    /\ ads_cost_thousands_vnd = TRUE
    /\ store_name = Store_shop
    /\ data_files = <<>>
    /\ latest_file = NoFile
    /\ unwritable \in SUBSET DataDirFiles
    /\ stores_file = NoStoresFile
    /\ sessions = <<>>

\* main is run again (lines 618-622): the locals start afresh, the files and
\* the settings stay
Rerun ==
    /\ pc \in {"loaded", "scaled"}
    /\ pc' = "sheet"
    /\ values' \in ReloadSheets
    /\ unwritable' \in SUBSET DataDirFiles
    /\ header_row_idx' = 0
    /\ headers' = <<>>
    /\ records' = <<>>
    /\ df' = NoFrame
    /\ latest_file' = NoFile
    /\ UNCHANGED <<cell, num, summary, campaign_stats, top_campaigns,
                   cursor_file, ads_data_file,
                   ads_currency, ads_cost_thousands_vnd,
                   store_name, data_files, storeVars>>

NextReload ==
    \/ ConnectGoogleSheets
    \/ LoadAdsDataFromSheets
    \/ AutoImportJsonFiles
    \/ LoadMainJsonFile
    \/ ApplyUnitScale
    \/ Rerun

SpecReload == InitReload /\ [][NextReload]_vars

-----------------------------------------------------------------------------
(* SpecImport: load_ads_data for a store whose name is, or has, a prefix    *)
(* that is another store's name, with other .json files lying in data/.     *)

MaxFiles == 2

StoreNames == {Store_shop, Store_shop_eu}

\* names of import files, "_1" standing for any suffix
ImportFileNames ==
    { Text_data_google_ads \o s \o <<"_", "1">> \o Text_json : s \in StoreNames }

\* the names the other .json files of data/ can have: import files, and the
\* main files of the other stores
OtherFileNames(store) ==
    ImportFileNames \cup {get_ads_data_file(s) : s \in StoreNames \ {store}}

\* what a .json file holds: no JSON at all, an empty list, or one record
FileTables ==
    { <<>>,
      << F_campaign :> Str(Campaign_A) @@ F_cost :> IntNum(5) >>,
      << F_campaign :> Str(Campaign_B) @@ F_cost :> IntNum(8) >> }

FileContents ==
    {[valid |-> TRUE, data |-> d] : d \in FileTables}
        \cup {[valid |-> FALSE, data |-> <<>>]}

\* at most MaxFiles files with different names, in the order of creation
Directories(store) ==
    { fs \in UNION { [1..k -> [name : OtherFileNames(store), content : FileContents]] :
                       k \in 0..MaxFiles } :
        \A i, j \in 1..Len(fs) : fs[i].name = fs[j].name => i = j }

DirectoryFiles(store) ==
    { [i \in 1..Len(fs) |-> [name |-> fs[i].name, valid |-> fs[i].content.valid,
                             data |-> fs[i].content.data]] : fs \in Directories(store) }

\* the sheet has no data row, or one
ImportSheets ==
    { <<>>, << <<Text_Date, Text_Cost>>, << <<"1">>, <<"5">> >> >> }

InitImport ==
    /\ pc = "sheet"
    /\ values \in ImportSheets
    /\ store_name \in StoreNames
    /\ data_files \in DirectoryFiles(store_name)
    /\ ads_data_file \in {NoDataFile} \cup {[exists |-> TRUE, data |-> d] : d \in FileTables}
    /\ unwritable \in {{}, {W_ads_data_file}}
    /\ cell = Str(<<>>)
    /\ num = NaN
    /\ header_row_idx = 0
    /\ headers = <<>>
    /\ records = <<>>
    /\ df = NoFrame
    /\ summary = <<>>
    /\ campaign_stats = NoFrame
    /\ top_campaigns = NoFrame
    /\ cursor_file = NoCursorFile
    /\ ads_currency = "USD"
    /\ ads_cost_thousands_vnd = TRUE
    /\ latest_file = NoFile
    /\ stores_file = NoStoresFile
    /\ sessions = <<>>

NextImport ==
    \/ ConnectGoogleSheets
    \/ LoadAdsDataFromSheets
    \/ AutoImportJsonFiles
    \/ LoadMainJsonFile

SpecImport == InitImport /\ [][NextImport]_vars

-----------------------------------------------------------------------------
(* Store Manager (src/pages/1_..._Store_Manager.py): stores_data.json and    *)
(* the calls that read and write it.  The file is absent, or holds a dict of *)
(* entries keyed by store name, or a list of entries (the old format), or    *)
(* something else (no JSON, or JSON that is neither).  An entry is a function *)
(* from field names to values; of the fields of an entry the model keeps     *)
(* store_name, last_used and ga4_property_id, and name and property_id of    *)
(* the old format.                                                           *)

\* Python's None
None == [k |-> "none", s |-> <<>>, n |-> 0, d |-> 1]

\* s.get(key) and s.get(key, default)
Get(s, key) == IF key \in DOMAIN s THEN s[key] ELSE None

GetOr(s, key, default) == IF key \in DOMAIN s THEN s[key] ELSE default

\* a or b: b when a is None or the empty string
Or(a, b) == IF a.k = "str" /\ a.s # <<>> THEN a ELSE b

Text_store_ == <<"s", "t", "o", "r", "e", "_">>

\* line 33: the entries of the model have no id
NameOf(s) == Or(Or(Get(s, "store_name"), Get(s, "name")), Str(Text_store_))

\* lines 34-46
NormalizedEntry(s) ==
    [store_name |-> GetOr(s, "store_name", NameOf(s)),
     last_used |-> Get(s, "last_used"),
     ga4_property_id |-> Or(Get(s, "property_id"), Get(s, "ga4_property_id"))]

\* d[key] = value
DictSet(d, key, value) ==
    [x \in DOMAIN d \cup {key} |-> IF x = key THEN value ELSE d[x]]

\* lines 31-46: the loop over the list, a later entry replacing an earlier
\* one of the same name
RECURSIVE Normalized(_)
Normalized(raw) ==
    IF raw = <<>> THEN <<>>
    ELSE LET s == raw[Len(raw)]
         IN  DictSet(Normalized(SubSeq(raw, 1, Len(raw) - 1)), NameOf(s).s,
                     NormalizedEntry(s))

DictFile(stores) == [exists |-> TRUE, format |-> "dict", stores |-> stores, items |-> <<>>]

ListFile(items) == [exists |-> TRUE, format |-> "list", stores |-> <<>>, items |-> items]

\* a file that is no JSON, or JSON that is neither a list nor a dict
OtherFile == [exists |-> TRUE, format |-> "other", stores |-> <<>>, items |-> <<>>]

W_stores_file == "stores_file"

\* what load_stores returns (lines 23-60)
load_stores(file) ==
    IF ~file.exists THEN <<>>
    ELSE IF file.format = "list" THEN Normalized(file.items)
    ELSE IF file.format = "dict" THEN file.stores
    ELSE <<>>

\* the file load_stores leaves behind: a list is written back as a dict
\* (lines 47-52), a failure of that write is passed over
AfterLoad(file) ==
    IF file.exists /\ file.format = "list" /\ W_stores_file \notin unwritable
    THEN DictFile(Normalized(file.items))
    ELSE file

Text_p1 == <<"p", "1">>
Text_now == <<"n", "o", "w">>

\* lines 98-128
new_store(name) ==
    [store_name |-> Str(name), last_used |-> None, ga4_property_id |-> Str(Text_p1)]

\* stores = load_stores() (lines 91, 155)
LoadStores ==
    \E id \in DOMAIN sessions :
        /\ sessions[id].pc = "call"
        /\ sessions' = [sessions EXCEPT ![id].pc = "loaded",
                                        ![id].stores = load_stores(stores_file)]
        /\ stores_file' = AfterLoad(stores_file)
        /\ UNCHANGED <<pc, cell, num, values, header_row_idx, headers, records, df, summary,
                       campaign_stats, top_campaigns, cursor_file, ads_data_file,
                       ads_currency, ads_cost_thousands_vnd, fileVars>>

\* mutant: the duplicate check is left out
AddStore_NoCheck ==
    \E id \in DOMAIN sessions :
        LET name == sessions[id].store_name
            stores == DictSet(sessions[id].stores, name, new_store(name))
        IN  /\ sessions[id].pc = "loaded"
            /\ sessions[id].op = "add_store"
            /\ IF W_stores_file \in unwritable
               THEN /\ sessions' = [sessions EXCEPT ![id].pc = "done",
                                                    ![id].stores = stores,
                                                    ![id].result = "False"]
                    /\ UNCHANGED stores_file
               ELSE /\ sessions' = [sessions EXCEPT ![id].pc = "done",
                                                    ![id].stores = stores,
                                                    ![id].result = "True"]
                    /\ stores_file' = DictFile(stores)
            /\ UNCHANGED <<pc, cell, num, values, header_row_idx, headers, records, df,
                           summary, campaign_stats, top_campaigns, cursor_file,
                           ads_data_file, ads_currency, ads_cost_thousands_vnd, fileVars>>

\* add_store after its load_stores (lines 93-137)
AddStore ==
    \E id \in DOMAIN sessions :
        LET name == sessions[id].store_name
            stores == DictSet(sessions[id].stores, name, new_store(name))
        IN  /\ sessions[id].pc = "loaded"
            /\ sessions[id].op = "add_store"
            /\ IF name \in DOMAIN sessions[id].stores
               THEN /\ sessions' = [sessions EXCEPT ![id].pc = "done",
                                                    ![id].result = "False"]
                    /\ UNCHANGED stores_file
               ELSE IF W_stores_file \in unwritable
               THEN /\ sessions' = [sessions EXCEPT ![id].pc = "done",
                                                    ![id].stores = stores,
                                                    ![id].result = "False"]
                    /\ UNCHANGED stores_file
               ELSE /\ sessions' = [sessions EXCEPT ![id].pc = "done",
                                                    ![id].stores = stores,
                                                    ![id].result = "True"]
                    /\ stores_file' = DictFile(stores)
            /\ UNCHANGED <<pc, cell, num, values, header_row_idx, headers, records, df,
                           summary, campaign_stats, top_campaigns, cursor_file,
                           ads_data_file, ads_currency, ads_cost_thousands_vnd, fileVars>>

\* update_last_used after its load_stores (lines 156-158)
UpdateLastUsed ==
    \E id \in DOMAIN sessions :
        LET name == sessions[id].store_name
            loaded == sessions[id].stores
            stores == IF name \in DOMAIN loaded
                      THEN DictSet(loaded, name, DictSet(loaded[name], "last_used", Str(Text_now)))
                      ELSE loaded
        IN  /\ sessions[id].pc = "loaded"
            /\ sessions[id].op = "update_last_used"
            /\ sessions' = [sessions EXCEPT ![id].pc = "done", ![id].stores = stores]
            /\ stores_file' = IF name \in DOMAIN loaded /\ W_stores_file \notin unwritable
                              THEN DictFile(stores) ELSE stores_file
            /\ UNCHANGED <<pc, cell, num, values, header_row_idx, headers, records, df,
                           summary, campaign_stats, top_campaigns, cursor_file,
                           ads_data_file, ads_currency, ads_cost_thousands_vnd, fileVars>>

-----------------------------------------------------------------------------
(* SpecStore: one call of add_store or update_last_used.  SpecRace: two     *)
(* sessions, each running one call, their reads and writes of               *)
(* stores_data.json interleaved in any order.                               *)

MaxItems == 2

\* entries of a dict file
DictEntries(name) ==
    { [store_name |-> Str(name), last_used |-> u, ga4_property_id |-> Str(Text_p1)] :
        u \in {None, Str(Text_now)} }

DictFiles ==
    { DictFile(d) :
        d \in UNION { {e \in [S -> UNION {DictEntries(n) : n \in S}] :
                          \A n \in S : e[n] \in DictEntries(n)} :
                      S \in SUBSET StoreNames } }

\* entries of a list file: named by store_name or by name, the property id
\* under either key
ListItems ==
    { [store_name |-> Str(Store_shop), property_id |-> Str(Text_p1)],
      [name |-> Str(Store_shop_eu), ga4_property_id |-> Str(Text_p1),
       last_used |-> Str(Text_now)],
      [name |-> Str(Store_shop), last_used |-> None] }

ListFiles == { ListFile(items) : items \in TextsUpTo(ListItems, MaxItems) }

StoreFiles == {NoStoresFile, OtherFile} \cup DictFiles \cup ListFiles

Calls ==
    { [op |-> o, store_name |-> n, pc |-> "call", stores |-> <<>>, result |-> "none"] :
        o \in {"add_store", "update_last_used"}, n \in StoreNames }

InitStores(ids) ==
    /\ pc = "store_manager"
    /\ stores_file \in StoreFiles
    /\ sessions \in [ids -> Calls]
    /\ unwritable \in {{}, {W_stores_file}}
    /\ cell = Str(<<>>)
    /\ num = NaN
    /\ values = <<>>
    /\ header_row_idx = 0
    /\ headers = <<>>
    /\ records = <<>>
    /\ df = NoFrame
    /\ summary = <<>>
    /\ campaign_stats = NoFrame
    /\ top_campaigns = NoFrame
    /\ cursor_file = NoCursorFile
    /\ ads_data_file = NoDataFile
    /\ ads_currency = "USD"
    /\ ads_cost_thousands_vnd = TRUE
    /\ store_name = Store_shop
    /\ data_files = <<>>
    /\ latest_file = NoFile

InitStore == InitStores({1})

InitRace == InitStores({1, 2})

NextStore ==
    \/ LoadStores
    \/ AddStore
    \/ UpdateLastUsed

SpecStore == InitStore /\ [][NextStore]_vars

SpecRace == InitRace /\ [][NextStore]_vars

-----------------------------------------------------------------------------
(* SpecFloat: smart_to_float applied to one cell *)

FloatChars == {"0", "1", "5", ",", ".", "-", "$", " "}

\* the numeric strings the specification names, and the unparseable ones
NamedCells ==
    { <<"1", ",", "2", "3", "4", ".", "5", "6">>,
      <<"1", ".", "2", "3", "4", ",", "5", "6">>,
      <<"1", "2", "3", "4">>,
      <<"$", "1", ",", "2", "3", "4">>,
      <<"1", "2", "%">>,
      <<"1", ",", "2", "3", "4", ",", "5", "6", "7">>,
      <<"1", ".", "2", ".", "3">>,
      <<"-", "5">>,
      <<"n", "a", "n">>,
      <<"i", "n", "f">> }

CellInputs == {Str(s) : s \in TextsUpTo(FloatChars, MaxCellLen) \cup NamedCells}

\* cells that already hold a number: integers, fractions, NaN, the infinities
NumberInputs ==
    { Num(n, d) : n \in {-5, 0, 1, 7, 123456}, d \in {1, 2, 100} }
        \cup { NaN, Num(1, 0), Num(-1, 0) }

InitFloat ==
    /\ \/ pc = "cell" /\ cell \in CellInputs
       \/ pc = "number" /\ cell \in NumberInputs
    /\ num = NaN
    /\ values = <<>>
    /\ header_row_idx = 0
    /\ headers = <<>>
    /\ records = <<>>
    /\ df = NoFrame
    /\ summary = <<>>
    /\ campaign_stats = NoFrame
    /\ top_campaigns = NoFrame
    /\ cursor_file = NoCursorFile
    /\ ads_data_file = NoDataFile
    /\ ads_currency = "VND"
    /\ ads_cost_thousands_vnd = TRUE
    /\ store_name = Store_shop
    /\ data_files = <<>>
    /\ latest_file = NoFile
    /\ unwritable = {}
    /\ stores_file = NoStoresFile
    /\ sessions = <<>>

\* df[col].apply(smart_to_float) on one cell (line 251)
ApplySmartToFloat ==
    /\ pc \in {"cell", "number"}
    /\ num' = smart_to_float(cell)
    /\ pc' = IF pc = "cell" THEN "normalized" ELSE "renormalized"
    /\ UNCHANGED <<cell, values, header_row_idx, headers, records, df, summary,
                   campaign_stats, top_campaigns, cursor_file, ads_data_file,
                   ads_currency, ads_cost_thousands_vnd,
                   fileVars, storeVars>>

\* df[col].apply(smart_to_float) once more, on the value the first pass
\* left in the column (line 251 on an already normalized column)
ReapplySmartToFloat ==
    /\ pc = "normalized"
    /\ cell' = num
    /\ num' = smart_to_float(num)
    /\ pc' = "renormalized"
    /\ UNCHANGED <<values, header_row_idx, headers, records, df, summary,
                   campaign_stats, top_campaigns, cursor_file, ads_data_file,
                   ads_currency, ads_cost_thousands_vnd,
                   fileVars, storeVars>>

NextFloat == ApplySmartToFloat \/ ReapplySmartToFloat

SpecFloat == InitFloat /\ [][NextFloat]_vars

-----------------------------------------------------------------------------
(* Claims about smart_to_float, checked under SpecFloat *)

\* the text left once everything but digits, comma, period and minus is gone
Stripped == KeepNumeric(Strip(cell.s))

\* the separator the claims call the decimal mark of a stripped text t
DecimalMark(t) ==
    IF Contains(t, ",") /\ Contains(t, ".")
    THEN (IF RFind(t, ",") > RFind(t, ".") THEN "," ELSE ".")
    ELSE IF Contains(t, ",") THEN "," ELSE "."

\* t without the separator that is not its decimal mark
Significant(t) == SelectSeq(t, LAMBDA c : c \notin ({",", "."} \ {DecimalMark(t)}))

\* a stripped text that is no number: no digit, a minus sign that is not the
\* leading character once the other separator is dropped, or more than one
\* decimal mark
Unparseable(t) ==
    \/ \A i \in 1..Len(t) : t[i] \notin Digits
    \/ \E i \in 2..Len(Significant(t)) : Significant(t)[i] = "-"
    \/ CountOf(t, DecimalMark(t)) > 1

\* the digits of t read as one integer, and the digits after its decimal mark
AllDigits(t) == DigitsToInt(SelectSeq(t, LAMBDA c : c \in Digits))

DigitsAfterMark(t) ==
    IF Contains(t, DecimalMark(t))
    THEN Len(SelectSeq(SubSeq(t, RFind(t, DecimalMark(t)) + 2, Len(t)),
                       LAMBDA c : c \in Digits))
    ELSE 0

\* C2 as stated: smart_to_float maps "1,234.56", "1.234,56", "1234", "$1,234"
\* and "12%" to 1234.56, 1234.56, 1234.0, 1234.0 and 12.0.
C2_NamedValues ==
    pc = "normalized" =>
        /\ cell.s = <<"1", ",", "2", "3", "4", ".", "5", "6">> => num = Num(123456, 100)
        /\ cell.s = <<"1", ".", "2", "3", "4", ",", "5", "6">> => num = Num(123456, 100)
        /\ cell.s = <<"1", "2", "3", "4">> => num = IntNum(1234)
        /\ cell.s = <<"$", "1", ",", "2", "3", "4">> => num = IntNum(1234)
        /\ cell.s = <<"1", "2", "%">> => num = IntNum(12)

\* C2 amended: smart_to_float maps "1,234.56", "1.234,56", "1234" and "12%" to
\* 1234.56, 1234.56, 1234.0 and 12.0, and maps "$1,234" to 1.234 (a lone comma
\* is read as the decimal point).
C2_NamedValuesAmended ==
    pc = "normalized" =>
        /\ cell.s = <<"1", ",", "2", "3", "4", ".", "5", "6">> => num = Num(123456, 100)
        /\ cell.s = <<"1", ".", "2", "3", "4", ",", "5", "6">> => num = Num(123456, 100)
        /\ cell.s = <<"1", "2", "3", "4">> => num = IntNum(1234)
        /\ cell.s = <<"$", "1", ",", "2", "3", "4">> => num = Num(1234, 1000)
        /\ cell.s = <<"1", "2", "%">> => num = IntNum(12)

C2_Witness ==
    /\ pc = "normalized"
    /\ cell.s = <<"$", "1", ",", "2", "3", "4">>
    /\ num = Num(1234, 1000)

\* C4: with both a comma and a period left, the one occurring last is the
\* decimal point and every occurrence of the other is dropped; with only
\* commas left, the comma is the decimal point, never a thousands separator.
\* So a parseable text is worth its digits divided by ten to the number of
\* digits that follow its decimal mark.
C4_DecimalSeparator ==
    (pc = "normalized" /\ Strip(cell.s) # <<>> /\ ~Unparseable(Stripped)) =>
        LET t == Stripped
        IN  /\ num.d > 0
            /\ Abs(num.n) * Pow10(DigitsAfterMark(t)) = AllDigits(t) * num.d
            /\ (Contains(t, ",") /\ ~Contains(t, ".")) =>
                   Abs(num.n) * Pow10(Len(t) - (RFind(t, ",") + 1)) = AllDigits(t) * num.d

C4_Witness ==
    /\ pc = "normalized"
    /\ cell.s = <<"1", ".", "2", "3", "4", ",", "5", "6">>
    /\ num = Num(123456, 100)

\* C5: an empty, blank or unparseable cell gives 0.0; what smart_to_float
\* returns is always a number, the 0.0 of the except branch standing for
\* every failure of float().
C5_GarbageIsZero ==
    pc = "normalized" =>
        /\ IsNum(num) /\ ~IsNaN(num)
        /\ (Strip(cell.s) = <<>> \/ Unparseable(Stripped)) => num = Zero

C5_Witness ==
    /\ pc = "normalized"
    /\ cell.s = <<"1", ",", "2", "3", "4", ",", "5", "6", "7">>
    /\ num = Zero

\* C6 as stated: every normalized numeric field holds a finite, non-negative
\* number, for every raw cell.
C6_NonNegative ==
    pc = "normalized" => IsFinite(num) /\ num.n >= 0

\* C6 amended: every normalized numeric field holds a finite number, which is
\* negative exactly when the stripped cell is a number with a leading minus
\* sign and a non-zero digit ("-5" gives -5.0), and non-negative otherwise.
C6_SignFollowsMinus ==
    pc = "normalized" =>
        /\ IsFinite(num)
        /\ num.n < 0 <=>
               /\ Strip(cell.s) # <<>>
               /\ ~Unparseable(Stripped)
               /\ Significant(Stripped)[1] = "-"
               /\ AllDigits(Stripped) > 0

C6_Witness ==
    /\ pc = "normalized"
    /\ cell.s = <<"-", "5">>
    /\ num = IntNum(-5)

-----------------------------------------------------------------------------
(* Claims about the sheet pipeline, checked under Spec *)

\* a row with at least two non-empty cells, pairwise distinct once trimmed
\* and lower-cased
Qualifies(row) ==
    /\ \E i, j \in 1..Len(row) : i < j /\ Strip(row[i]) # <<>> /\ Strip(row[j]) # <<>>
    /\ \A i, j \in 1..Len(row) :
          (i < j /\ Strip(row[i]) # <<>> /\ Strip(row[j]) # <<>>)
              => Lower(Strip(row[i])) # Lower(Strip(row[j]))

\* the 0-based indexes, among the first ten rows, of the rows that qualify
QualifyingIndexes == {i \in 0..(Len(values) - 1) : i <= 9 /\ Qualifies(values[i + 1])}

\* C1: header detection selects the first of rows 0..9 that has at least two
\* non-empty cells, pairwise distinct after trimming and lower-casing, and
\* row 0 when none of the first ten rows qualifies.
C1_HeaderDetection ==
    (pc # "sheet" /\ values # <<>>) =>
        IF QualifyingIndexes = {} THEN header_row_idx = 0
        ELSE /\ header_row_idx \in QualifyingIndexes
             /\ \A i \in QualifyingIndexes : header_row_idx <= i

\* a sheet whose only qualifying row is at index 10: row 0 is selected
C1_Witness ==
    /\ pc = "connected"
    /\ Len(values) > 10
    /\ Qualifies(values[11])
    /\ QualifyingIndexes = {}
    /\ header_row_idx = 0

\* what the worked example yields apart from the total of impressions
ScenarioCommon ==
    /\ header_row_idx = 1
    /\ headers = <<F_date, F_impressions, F_clicks, F_cost>>
    /\ Len(records) = 2
    /\ Len(df.rows) = 2
    /\ DOMAIN df.rows[1] = {F_date, F_impressions, F_clicks, F_cost}
    /\ df.rows[1][F_cost] = IntNum(100)
    /\ df.rows[2][F_cost] = IntNum(200)
    /\ summary.total_clicks = IntNum(130)
    /\ summary.total_cost = IntNum(300)

\* C3 as stated: the worked example selects header row 1, yields the fields
\* date, impressions, clicks, cost, two records with cost 100.0 and 200.0, and
\* total_impressions = 3000, total_clicks = 130, total_cost = 300.0.
C3_Scenario ==
    (pc = "analyzed" /\ values = ScenarioSheet) =>
        ScenarioCommon /\ summary.total_impressions = IntNum(3000)

\* C3 amended: as stated, except that total_impressions = 2001: the cell
\* "1,000" is normalized to 1.0, its comma being read as the decimal point.
C3_ScenarioAmended ==
    (pc = "analyzed" /\ values = ScenarioSheet) =>
        /\ ScenarioCommon
        /\ df.rows[1][F_impressions] = IntNum(1)
        /\ df.rows[2][F_impressions] = IntNum(2000)
        /\ summary.total_impressions = IntNum(2001)

C3_Witness ==
    /\ pc = "analyzed"
    /\ values = ScenarioSheet
    /\ summary.total_impressions = IntNum(2001)

-----------------------------------------------------------------------------
(* Claims about column naming and record construction, checked under       *)
(* SpecHeader                                                              *)

Connected == pc \in {"connected", "connected_ga4"}

\* the row of labels the function selected
RawHeaders == values[header_row_idx + 1]

\* the alias table as C12 lists it; the key itself when it is not listed
StatedName(key) ==
    IF key \in {<<"d", "a", "t", "e">>, <<"n", "g", "à", "y">>} THEN <<"d", "a", "t", "e">>
    ELSE IF key \in {<<"c", "a", "m", "p", "a", "i", "g", "n">>} THEN <<"c", "a", "m", "p", "a", "i", "g", "n">>
    ELSE IF key \in {<<"i", "m", "p", "r", ".">>, <<"i", "m", "p", "r">>, <<"i", "m", "p", "r", "e", "s", "s", "i", "o", "n", "s">>} THEN <<"i", "m", "p", "r", "e", "s", "s", "i", "o", "n", "s">>
    ELSE IF key \in {<<"c", "l", "i", "c", "k", "s">>} THEN <<"c", "l", "i", "c", "k", "s">>
    ELSE IF key \in {<<"c", "o", "s", "t">>, <<"s", "p", "e", "n", "d">>} THEN <<"c", "o", "s", "t">>
    ELSE IF key \in {<<"c", "o", "n", "v", "e", "r", "s", "i", "o", "n", "s">>} THEN <<"c", "o", "n", "v", "e", "r", "s", "i", "o", "n", "s">>
    ELSE IF key \in {<<"c", "o", "n", "v", ".", " ", "v", "a", "l", "u", "e">>, <<"c", "o", "n", "v", "e", "r", "s", "i", "o", "n", " ", "v", "a", "l", "u", "e">>, <<"v", "a", "l", "u", "e">>} THEN <<"c", "o", "n", "v", "e", "r", "s", "i", "o", "n", "_", "v", "a", "l", "u", "e">>
    ELSE IF key \in {<<"c", "t", "r">>} THEN <<"c", "t", "r">>
    ELSE IF key \in {<<"a", "v", "g", ".", " ", "c", "p", "c">>, <<"c", "p", "c">>} THEN <<"a", "v", "g", "_", "c", "p", "c">>
    ELSE key

\* the name of a column as C12 states it
ColumnNameAsStated(idx) ==
    IF Strip(RawHeaders[idx]) = <<>> THEN <<"c", "o", "l", "_">> \o Decimal(idx)
    ELSE StatedName(Lower(Strip(RawHeaders[idx])))

\* C12 as stated: a blank label is named col_N by its 1-indexed position; any
\* other label is trimmed, lower-cased and mapped by the listed alias table,
\* and a label the table does not list, "day" for one, is kept as its
\* trimmed lower-cased text.
C12_ColumnNaming ==
    (Connected /\ values # <<>>) =>
        /\ Len(headers) = Len(RawHeaders)
        /\ \A idx \in 1..Len(RawHeaders) : headers[idx] = ColumnNameAsStated(idx)

\* C12 amended: as stated, except that on the Google Ads Analyzer page the
\* alias table also maps "day" to date; on the GA4 + Ads page "day" is kept.
C12_ColumnNamingAmended ==
    (Connected /\ values # <<>>) =>
        /\ Len(headers) = Len(RawHeaders)
        /\ \A idx \in 1..Len(RawHeaders) :
              IF pc = "connected" /\ Lower(Strip(RawHeaders[idx])) = <<"d", "a", "y">>
              THEN headers[idx] = <<"d", "a", "t", "e">>
              ELSE headers[idx] = ColumnNameAsStated(idx)

\* the Ads page names the columns of "Day", " Spend", " "
C12_Witness ==
    /\ pc = "connected"
    /\ RawHeaders = <<<<"D", "a", "y">>, <<" ", "S", "p", "e", "n", "d">>, <<" ">>>>
    /\ headers = <<F_date, F_cost, <<"c", "o", "l", "_", "3">>>>

\* C13: when one of the first ten rows is a row of unique labels, every
\* record has as many fields as that row has columns, also when two labels
\* map to one canonical name or a label equals a synthesized col_N.
C13_FieldCount ==
    (Connected /\ values # <<>> /\ QualifyingIndexes # {}) =>
        \A i \in 1..Len(records) : Cardinality(DOMAIN records[i]) = Len(RawHeaders)

\* the 1-based positions of the rows after the selected row that are not
\* entirely blank
DataRowPositions ==
    {i \in (header_row_idx + 2)..Len(values) :
        \E j \in 1..Len(values[i]) : Strip(values[i][j]) # <<>>}

\* the k-th of them from the top
NthDataRow(k) ==
    CHOOSE i \in DataRowPositions : Cardinality({j \in DataRowPositions : j < i}) = k - 1

\* cell j of a row, the empty text past its end
CellOf(row, j) == IF j <= Len(row) THEN row[j] ELSE <<>>

\* C14: the records are the rows strictly after the selected header row that
\* are not entirely blank, one record per row and in the order of the rows;
\* each record holds, under the name of a column, the cell of its row in that
\* column (the last such column when a name occurs twice).
C14_RecordsFollowRows ==
    (Connected /\ values # <<>>) =>
        /\ Len(records) = Cardinality(DataRowPositions)
        /\ \A k \in 1..Len(records) :
              /\ DOMAIN records[k] = {headers[j] : j \in 1..Len(headers)}
              /\ \A j \in 1..Len(headers) :
                    (\A l \in (j + 1)..Len(headers) : headers[l] # headers[j])
                        => records[k][headers[j]] = Str(CellOf(values[NthDataRow(k)], j))

\* a blank row between two data rows, under a row of two labels
C14_Witness ==
    /\ pc = "connected"
    /\ header_row_idx = 0
    /\ Len(values) = 4
    /\ Len(headers) = 2
    /\ values[2] = <<<<"1">>>>
    /\ values[3] = <<<<>>, <<" ">>>>
    /\ values[4] = <<<<"1">>, <<"2">>, <<"3">>, <<"4">>>>
    /\ Len(records) = 2
    /\ records[2][headers[2]] = Str(<<"2">>)

-----------------------------------------------------------------------------
(* Claims about the aggregation, checked under SpecAgg *)

Analyzed == pc \in {"analyzed", "done"}

\* r = a / b * k, cross-multiplied
IsQuotient(r, a, b, k) == r.d > 0 /\ r.n * b.n * a.d = a.n * k * b.d * r.d

\* a ratio as C7 states it: a / b * k, and 0 when b is 0
RatioAsStated(r, a, b, k) == IF b.n = 0 THEN r = Zero ELSE IsQuotient(r, a, b, k)

\* a ratio as the code computes it: a / b * k when b > 0, and 0 otherwise
RatioAsAmended(r, a, b, k) == IF b.n > 0 THEN IsQuotient(r, a, b, k) ELSE r = Zero

\* C7 as stated: each ratio of the summary is its quotient, and exactly 0
\* whenever its denominator is 0.
C7_Ratios ==
    Analyzed =>
        /\ RatioAsStated(summary.ctr, summary.total_clicks, summary.total_impressions, 100)
        /\ RatioAsStated(summary.cpc, summary.total_cost, summary.total_clicks, 1)
        /\ RatioAsStated(summary.cpm, summary.total_cost, summary.total_impressions, 1000)
        /\ RatioAsStated(summary.conversion_rate, summary.total_conversions,
                         summary.total_clicks, 100)
        /\ RatioAsStated(summary.roas, summary.total_conversion_value, summary.total_cost, 1)

\* C7 amended: each ratio of the summary is its quotient when its denominator
\* is greater than 0, and exactly 0 whenever its denominator is 0 or negative;
\* no NaN or infinity occurs.
C7_RatiosAmended ==
    Analyzed =>
        /\ RatioAsAmended(summary.ctr, summary.total_clicks, summary.total_impressions, 100)
        /\ RatioAsAmended(summary.cpc, summary.total_cost, summary.total_clicks, 1)
        /\ RatioAsAmended(summary.cpm, summary.total_cost, summary.total_impressions, 1000)
        /\ RatioAsAmended(summary.conversion_rate, summary.total_conversions,
                          summary.total_clicks, 100)
        /\ RatioAsAmended(summary.roas, summary.total_conversion_value,
                          summary.total_cost, 1)

\* negative impressions and positive clicks: the click-through rate is 0
C7_Witness ==
    /\ pc = "analyzed"
    /\ summary.total_impressions.n < 0
    /\ summary.total_clicks.n > 0
    /\ summary.ctr = Zero

\* the sum of a field over the records of the file that have it
RECURSIVE FieldSum(_, _)
FieldSum(data, field) ==
    IF data = <<>> THEN Zero
    ELSE NumAdd(IF field \in DOMAIN data[1] THEN data[1][field] ELSE Zero,
                FieldSum(Tail(data), field))

\* C8: the five totals are the sums of their field over all records; a field
\* no record has gives 0, and a record without the field adds 0.
C8_Totals ==
    Analyzed =>
        /\ summary.total_impressions = FieldSum(ads_data_file.data, F_impressions)
        /\ summary.total_clicks = FieldSum(ads_data_file.data, F_clicks)
        /\ summary.total_cost = FieldSum(ads_data_file.data, F_cost)
        /\ summary.total_conversions = FieldSum(ads_data_file.data, F_conversions)
        /\ summary.total_conversion_value =
               FieldSum(ads_data_file.data, F_conversion_value)

\* cost is on some records only and conversions on none
C8_Witness ==
    /\ pc = "analyzed"
    /\ \E i, j \in 1..Len(ads_data_file.data) :
          /\ F_cost \in DOMAIN ads_data_file.data[i]
          /\ F_cost \notin DOMAIN ads_data_file.data[j]
    /\ \A i \in 1..Len(ads_data_file.data) : F_conversions \notin DOMAIN ads_data_file.data[i]
    /\ summary.total_cost = IntNum(10)
    /\ summary.total_conversions = Zero

\* the sum of a column over the rows of a frame
RECURSIVE RowsSum(_, _)
RowsSum(rows, col) ==
    IF rows = <<>> THEN Zero ELSE NumAdd(rows[1][col], RowsSum(Tail(rows), col))

\* C9: for each of the five total fields, the per-campaign sums of
\* safe_group_sum add up to the total of analyze_ads_performance, also when
\* some records have no campaign.
C9_GroupSumsMatchTotals ==
    pc = "done" =>
        /\ RowsSum(campaign_stats.rows, F_impressions) = summary.total_impressions
        /\ RowsSum(campaign_stats.rows, F_clicks) = summary.total_clicks
        /\ RowsSum(campaign_stats.rows, F_cost) = summary.total_cost
        /\ RowsSum(campaign_stats.rows, F_conversions) = summary.total_conversions
        /\ RowsSum(campaign_stats.rows, F_conversion_value) = summary.total_conversion_value

\* the campaign of record i of the file, when it has one
HasCampaign(i) == F_campaign \in DOMAIN ads_data_file.data[i]

\* the position in the file of the first record of a campaign
FirstRecordOf(key) ==
    CHOOSE i \in 1..Len(ads_data_file.data) :
        /\ HasCampaign(i) /\ ads_data_file.data[i][F_campaign] = key
        /\ \A j \in 1..(i - 1) : ~(HasCampaign(j) /\ ads_data_file.data[j][F_campaign] = key)

\* the campaigns of the file
Campaigns ==
    {ads_data_file.data[i][F_campaign] : i \in {j \in 1..Len(ads_data_file.data) : HasCampaign(j)}}

\* the cost of a campaign: the sum over its records
CampaignCost(key) ==
    FieldSum(SelectSeq(ads_data_file.data,
                 LAMBDA r : F_campaign \in DOMAIN r /\ r[F_campaign] = key), F_cost)

\* C10: the top-campaigns view holds one row per campaign with the summed cost,
\* at most ten rows, in descending order of cost, campaigns of equal cost in
\* the order of their first appearance in the table.  Stated for the tables
\* whose records all name a campaign.
C10_TopByCostInputOrder ==
    (pc = "done" /\ \A r \in 1..Len(ads_data_file.data) : HasCampaign(r)) =>
        LET top == top_campaigns.rows
        IN  /\ Len(top) = Min(TopN, Cardinality(Campaigns))
            /\ \A i \in 1..Len(top) :
                  /\ top[i][F_campaign] \in Campaigns
                  /\ top[i][F_cost] = CampaignCost(top[i][F_campaign])
            /\ \A i, j \in 1..Len(top) :
                  i < j =>
                      \/ NumLess(top[j][F_cost], top[i][F_cost])
                      \/ /\ top[j][F_cost] = top[i][F_cost]
                         /\ FirstRecordOf(top[i][F_campaign]) < FirstRecordOf(top[j][F_campaign])

\* C11: in the per-campaign table every derived ratio is 0, and neither NaN
\* nor infinite, whenever the group's denominator is 0: CTR when the
\* impressions are 0, CPC when the clicks are 0, ROAS when the cost is 0, also
\* when the numerator is positive.
C11_GroupRatiosZero ==
    pc = "done" =>
        \A i \in 1..Len(campaign_stats.rows) :
            LET r == campaign_stats.rows[i]
            IN  /\ r[F_impressions].n = 0 => r[F_CTR] = Zero
                /\ r[F_clicks].n = 0 => r[F_CPC] = Zero
                /\ r[F_cost].n = 0 => r[F_ROAS] = Zero

-----------------------------------------------------------------------------
(* Claims about the unit-scale step, checked under SpecScale *)

\* the records of the loaded file
FileData == ads_data_file.data

\* r is v times 1000: cross-multiplied for a finite v, NaN for a NaN
IsThousandfold(r, v) ==
    IF v.d > 0 THEN r.d > 0 /\ r.n * v.d = 1000 * v.n * r.d ELSE r = v

\* the records that hold a finite value for a field
Holding(field) ==
    {i \in 1..Len(FileData) : field \in DOMAIN FileData[i] /\ FileData[i][field].d > 0}

\* the table has a maximum cost and it is below 10,000
MaxCostBelowLimit ==
    /\ Holding(F_cost) # {}
    /\ \A i \in Holding(F_cost) : FileData[i][F_cost].n < 10000 * FileData[i][F_cost].d

\* the sum of a field over the records S
RECURSIVE SumOver(_, _)
SumOver(S, field) ==
    IF S = {} THEN Zero
    ELSE LET i == CHOOSE x \in S : TRUE
         IN  NumAdd(FileData[i][field], SumOver(S \ {i}, field))

\* the table has no avg_cpc field, or the mean of its avg_cpc values (nulls
\* aside) is below 50
MeanCpcAbsentOrBelowLimit ==
    \/ \A i \in 1..Len(FileData) : F_avg_cpc \notin DOMAIN FileData[i]
    \/ /\ Holding(F_avg_cpc) # {}
       /\ SumOver(Holding(F_avg_cpc), F_avg_cpc).n
              < 50 * Cardinality(Holding(F_avg_cpc)) * SumOver(Holding(F_avg_cpc), F_avg_cpc).d

\* field c of record i is in the page's table what it is in the file
Kept(i, c) == df.rows[i][c] = FileData[i][c]

\* C15: with VND and the checkbox off, a table whose maximum cost is below
\* 10,000 and whose mean avg_cpc is absent or below 50 has every cost and
\* conversion_value multiplied by 1000 and its avg_cpc left alone; any other
\* table is left as loaded.
C15_Heuristic ==
    (pc = "scaled" /\ ads_currency = "VND" /\ ~ads_cost_thousands_vnd) =>
        /\ Len(df.rows) = Len(FileData)
        /\ \A i \in 1..Len(FileData) : \A c \in DOMAIN FileData[i] :
              IF MaxCostBelowLimit /\ MeanCpcAbsentOrBelowLimit
                 /\ c \in {F_cost, F_conversion_value}
              THEN IsThousandfold(df.rows[i][c], FileData[i][c])
              ELSE Kept(i, c)

\* the heuristic fires on a table that has an avg_cpc column
C15_Witness ==
    /\ pc = "scaled" /\ ads_currency = "VND" /\ ~ads_cost_thousands_vnd
    /\ Len(FileData) = 2
    /\ FileData[1] = (F_cost :> IntNum(5) @@ F_conversion_value :> IntNum(10)
                        @@ F_avg_cpc :> IntNum(40))
    /\ df.rows[1][F_cost] = IntNum(5000)
    /\ df.rows[1][F_conversion_value] = IntNum(10000)
    /\ df.rows[1][F_avg_cpc] = IntNum(40)
    /\ IsNaN(df.rows[2][F_cost])

\* C16: whatever the currency and the checkbox, one run multiplies a cost or
\* a conversion_value by 1000 at most once: the value shown is the loaded
\* value or 1000 times it, never more.
C16_ScaledAtMostOnce ==
    pc = "scaled" =>
        \A i \in 1..Len(FileData) : \A c \in {F_cost, F_conversion_value} :
            i \in Holding(c) => (Kept(i, c) \/ IsThousandfold(df.rows[i][c], FileData[i][c]))

\* the checkbox is on and the scaled table would still satisfy the heuristic
C16_Witness ==
    /\ pc = "scaled" /\ ads_currency = "VND" /\ ads_cost_thousands_vnd
    /\ Len(FileData) > 0
    /\ \A i \in 1..Len(FileData) : F_avg_cpc \notin DOMAIN FileData[i]
    /\ 1 \in Holding(F_cost)
    /\ FileData[1][F_cost] = IntNum(5)
    /\ df.rows[1][F_cost] = IntNum(5000)

\* the costs and conversion values of g are those of f
SameMoney(g, f) ==
    \A i \in 1..Len(f.rows) : \A c \in scale_cols \cap DOMAIN f.rows[i] :
        g.rows[i][c] = f.rows[i][c]

\* C17: with VND as the currency, some setting of the checkbox leaves the
\* cost and conversion_value of the loaded table unchanged, also when the
\* maximum cost is below 10,000.
C17_Skippable ==
    (pc = "loaded" /\ ads_currency = "VND" /\ ~Empty(df)) =>
        \E option \in BOOLEAN : SameMoney(UnitScale(df, "VND", option), df)

\* C18: with VND and the checkbox on, avg_cpc is multiplied by 1000 together
\* with cost and conversion_value; with the checkbox off it is left as loaded.
C18_ExplicitScalesCpc ==
    (pc = "scaled" /\ ads_currency = "VND") =>
        \A i \in 1..Len(FileData) :
            /\ \A c \in {F_cost, F_conversion_value, F_avg_cpc} :
                  (ads_cost_thousands_vnd /\ i \in Holding(c))
                      => IsThousandfold(df.rows[i][c], FileData[i][c])
            /\ (~ads_cost_thousands_vnd /\ i \in Holding(F_avg_cpc)) => Kept(i, F_avg_cpc)

\* C19: with VND and the checkbox on, the table with costs 5, 8, 3 and no
\* avg_cpc is shown with costs 5000, 8000, 3000.
C19_ScaleScenario ==
    (pc = "scaled" /\ ads_currency = "VND" /\ ads_cost_thousands_vnd
        /\ FileData = ScaleScenarioTable) =>
        /\ Len(df.rows) = 3
        /\ df.columns = <<F_cost>>
        /\ df.rows[1][F_cost] = IntNum(5000)
        /\ df.rows[2][F_cost] = IntNum(8000)
        /\ df.rows[3][F_cost] = IntNum(3000)

C19_Witness ==
    /\ pc = "scaled" /\ ads_currency = "VND" /\ ads_cost_thousands_vnd
    /\ FileData = ScaleScenarioTable
    /\ df.rows[2][F_cost] = IntNum(8000)

\* C20: with USD as the currency the unit-scale step changes no cost,
\* conversion_value or avg_cpc, whatever the values and the checkbox.
C20_UsdUnchanged ==
    (pc = "scaled" /\ ads_currency = "USD") =>
        /\ Len(df.rows) = Len(FileData)
        /\ \A i \in 1..Len(FileData) :
              \A c \in {F_cost, F_conversion_value, F_avg_cpc} \cap DOMAIN FileData[i] :
                  Kept(i, c)

\* USD, the checkbox on, and a table the heuristic would scale under VND
C20_Witness ==
    /\ pc = "scaled" /\ ads_currency = "USD" /\ ads_cost_thousands_vnd
    /\ MaxCostBelowLimit /\ MeanCpcAbsentOrBelowLimit
    /\ Len(FileData) > 0
    /\ FileData[1] = (F_cost :> IntNum(5) @@ F_conversion_value :> IntNum(10))
    /\ df.rows[1][F_cost] = IntNum(5)

-----------------------------------------------------------------------------
(* Claims about repeated normalisation, checked under SpecFloat *)

\* C21: smart_to_float returns a value that is already a number as that same
\* number, so a second pass over a normalized column changes nothing.
C21_NumbersUnchanged ==
    pc = "renormalized" => num = cell

\* 1,234.56 went through both passes and is still 1234.56
C21_Witness ==
    /\ pc = "renormalized"
    /\ cell = Num(123456, 100)
    /\ num = Num(123456, 100)

-----------------------------------------------------------------------------
(* Claims about the cursor and the backup, checked under SpecReload *)

\* C22: over any sequence of loads, whether the sheet grows, shrinks or stays
\* the same, the value in the cursor file never decreases.
C22_CursorMonotonic ==
    [][load_cursor' >= load_cursor]_vars

\* the sheet shrank: one record fetched, and the cursor still holds 2
C22_Witness ==
    /\ pc = "loaded"
    /\ Len(records) = 1
    /\ cursor_file = [exists |-> TRUE, count |-> 2]

\* C23: a load that fetched more records than the stored cursor writes the
\* JSON backup and sets the cursor to exactly that number; any other load
\* modifies neither the cursor file nor the backup.
C23_OnlyNewRowsTouchFiles ==
    [][pc = "connected" =>
         IF Len(records) > load_cursor
         THEN /\ ads_data_file' = [exists |-> TRUE, data |-> df'.rows]
              /\ cursor_file' = [exists |-> TRUE, count |-> Len(records)]
         ELSE UNCHANGED <<cursor_file, ads_data_file>>]_vars

\* C27: whenever a load advances the cursor to n, the backup has been written
\* with the n normalized records of that load.
C27_CursorFollowsBackup ==
    [][load_cursor' > load_cursor =>
         /\ ads_data_file' = [exists |-> TRUE, data |-> df'.rows]
         /\ Len(df'.rows) = load_cursor']_vars

\* the costs entered in the sheet, as numbers
EnteredCosts == {IntNum(5), IntNum(8)}

-----------------------------------------------------------------------------
(* Claims about load_ads_data and the files of data/, checked under         *)
(* SpecImport                                                                *)

\* C24: load_ads_data returns the first source that yields rows, in the order
\* sheet, latest import file, main file: a sheet with rows is returned at
\* once, and an import step that yields nothing hands the main file on to the
\* last step as it was, so that the result is empty only when all three yield
\* nothing.
\* the records the main file yields at this moment
MainFileYield == IF ads_data_file.exists THEN ads_data_file.data ELSE <<>>

C24_FirstNonEmptySource ==
    [][/\ (pc = "connected" /\ ~Empty(df')) => pc' = "loaded"
       /\ (pc = "import" /\ ~Empty(df')) => pc' = "loaded"
       /\ (pc = "import" /\ Empty(df')) =>
              (pc' = "json" /\ MainFileYield' = MainFileYield)]_vars

\* C29: loading the data of one store never reads the main file of another
\* store, also when one store name is a prefix of the other.
C29_StoreIsolation ==
    latest_file \notin {get_ads_data_file(s) : s \in StoreNames \ {store_name}}

-----------------------------------------------------------------------------
(* Claims about safe_group_sum, checked under SpecAgg *)

\* some record of the file has the field
InFile(field) == \E i \in 1..Len(FileData) : field \in DOMAIN FileData[i]

\* the records of the file whose by-field is the key and that hold the field
KeyHolding(by, key, field) ==
    {i \in Holding(field) : by \in DOMAIN FileData[i] /\ FileData[i][by] = key}

\* C25: the table safe_group_sum returns has the by-column and the five
\* expected columns; it has one row per distinct key, in which every expected
\* column the input has holds the sum over the rows of that key and every one
\* it lacks holds 0; when the input lacks the by-column the table has no rows.
C25_GroupShape ==
    pc = "grouped" =>
        LET g == campaign_stats
            by == g.columns[1]
        IN  /\ by \in {F_campaign, F_date}
            /\ \A j \in 1..Len(expected_cols) : HasColumn(g, expected_cols[j])
            /\ ~InFile(by) => g.rows = <<>>
            /\ \A r, q \in 1..Len(g.rows) : g.rows[r][by] = g.rows[q][by] => r = q
            /\ \A r \in 1..Len(g.rows) : \A j \in 1..Len(expected_cols) :
                   LET c == expected_cols[j]
                   IN  g.rows[r][c] =
                           IF InFile(c)
                           THEN SumOver(KeyHolding(by, g.rows[r][by], c), c)
                           ELSE Zero

\* the table of campaigns A, A, B with costs 10, 20, 5, grouped by campaign:
\* A has cost 30 and 0 clicks
C25_Witness ==
    /\ pc = "grouped"
    /\ FileData = ScenarioTable
    /\ Len(campaign_stats.rows) = 2
    /\ campaign_stats.rows[1][F_campaign] = Str(Campaign_A)
    /\ campaign_stats.rows[1][F_cost] = IntNum(30)
    /\ campaign_stats.rows[1][F_clicks] = Zero

-----------------------------------------------------------------------------
(* Claims about the Store Manager, checked under SpecStore and SpecRace *)

\* the entries a stores file holds, by store name
Entries(file) == IF file.format = "dict" THEN file.stores ELSE <<>>

\* the names under which a stores file holds entries
EntryNames(file) ==
    IF file.format = "list"
    THEN {NameOf(file.items[i]).s : i \in 1..Len(file.items)}
    ELSE DOMAIN Entries(file)

\* the file holds what it held and one more entry, keyed by name, never used
OneEntryAdded(name) ==
    /\ stores_file'.format = "dict"
    /\ DOMAIN stores_file'.stores = EntryNames(stores_file) \cup {name}
    /\ stores_file'.stores[name].store_name = Str(name)
    /\ stores_file'.stores[name].last_used = None
    /\ \A k \in EntryNames(stores_file) : stores_file'.stores[k] = Entries(stores_file)[k]

\* session id takes a step of a call of add_store
AddStoreStep(id) == sessions[id].op = "add_store" /\ sessions'[id] # sessions[id]

\* C26: add_store with a name that exists returns False and leaves
\* stores_data.json unchanged; with a new name it adds exactly one entry, keyed
\* by the name and with last_used None, and leaves every other entry unchanged.
C26_AddStore ==
    [][\A id \in DOMAIN sessions : AddStoreStep(id) =>
          LET name == sessions[id].store_name
          IN  IF sessions[id].pc = "call" THEN stores_file' = stores_file
              ELSE IF name \in EntryNames(stores_file)
              THEN sessions'[id].result = "False" /\ stores_file' = stores_file
              ELSE OneEntryAdded(name)]_vars

\* C26 as amended: the load of add_store leaves the file unchanged unless it
\* is a list, which it rewrites as a dict of the same names; then an existing
\* name gives False and no change, a new name gives True and one more entry
\* with last_used None, or False and no change when the file cannot be
\* written.
C26_AddStoreAmended ==
    [][\A id \in DOMAIN sessions : AddStoreStep(id) =>
          LET name == sessions[id].store_name
          IN  IF sessions[id].pc = "call"
              THEN \/ stores_file' = stores_file
                   \/ /\ stores_file.format = "list"
                      /\ stores_file'.format = "dict"
                      /\ DOMAIN stores_file'.stores = EntryNames(stores_file)
              ELSE IF name \in EntryNames(stores_file) \/ W_stores_file \in unwritable
              THEN sessions'[id].result = "False" /\ stores_file' = stores_file
              ELSE sessions'[id].result = "True" /\ OneEntryAdded(name)]_vars

\* add_store("shop") has returned False: the file has an entry shop, which
\* has been used, and could have been written
C26_Witness ==
    /\ DOMAIN sessions = {1}
    /\ sessions[1].op = "add_store"
    /\ sessions[1].store_name = Store_shop
    /\ sessions[1].pc = "done"
    /\ sessions[1].result = "False"
    /\ unwritable = {}
    /\ Store_shop \in DOMAIN Entries(stores_file)
    /\ Entries(stores_file)[Store_shop].last_used = Str(Text_now)

\* C30: no update is lost when two sessions run add_store, or add_store and
\* update_last_used, with their reads and writes interleaved in any order: a
\* store whose add_store returned True is in the file, and a store whose
\* update_last_used has written carries the time.
C30_NoLostUpdate ==
    \A id \in DOMAIN sessions :
        LET name == sessions[id].store_name
        IN  sessions[id].pc = "done" =>
                /\ (sessions[id].op = "add_store" /\ sessions[id].result = "True")
                       => name \in DOMAIN Entries(stores_file)
                /\ (/\ sessions[id].op = "update_last_used"
                    /\ name \in DOMAIN sessions[id].stores
                    /\ W_stores_file \notin unwritable)
                       => /\ name \in DOMAIN Entries(stores_file)
                          /\ Entries(stores_file)[name].last_used = Str(Text_now)

====
